---- MODULE Spec2Model ----
(***************************************************************************)
(* Expense approval workflow of the Expense-Management repository.         *)
(*                                                                         *)
(* The TypeScript backend (backend-ts) is modelled as a set of concurrent  *)
(* request handlers over the Prisma store: every `await` on the store is   *)
(* one atomic step, so handlers interleave exactly at the points where the *)
(* Node event loop can switch between them.  The JavaScript backend        *)
(* (backend) is modelled the same way over its PostgreSQL pool.            *)
(***************************************************************************)
EXTENDS Integers, Sequences, FiniteSets, TLC

VARIABLES
  expenses,        \* expenses table: id -> row
  approvalSteps,   \* approval_steps table: <<expenseId, approverId>> -> row
  approvalRules,   \* approval_rules table: id -> row
  approveReqs,     \* in-flight ExpenseController.approveExpense calls
  submitReqs,      \* in-flight ExpenseController.submitExpense calls
  adminOps,        \* number of admin operations (rules, users) performed
  terminalWrites,  \* history: committed expense.update calls that set a terminal status
  jsExpenses,      \* JavaScript backend, expenses table: id -> row
  jsApprovalSteps, \* JavaScript backend, approval_steps table: id -> row
  jsRules,         \* JavaScript backend, approval_rules rows by sequence_order, created_at
  jsDecides,       \* JavaScript backend: in-flight processApproval calls
  jsWorkflows,     \* JavaScript backend: in-flight submitExpense / resetApprovalWorkflow calls
  jsCreated,       \* JavaScript backend: approval_steps rows inserted so far
  exchangeRates,   \* exchange_rates table of one currency pair: timestamp -> rate
  jsExchangeRates, \* JavaScript backend, exchange_rates table of the pair: timestamp -> rate
  jsRateCache,     \* JavaScript backend, CurrencyService.cache entry of the pair, or None
  liveRate,        \* what the external rate source answers now: None when it fails
  now,             \* the clock, in hours
  sinks,           \* whether the audit_logs store and the mail transport answer
  managerLinks,    \* users.manager_id as the admin has set it: user -> manager or Null
  walk             \* an ApprovalEngine.getManagerHierarchy call: position and managers so far

tsVars == <<expenses, approvalSteps, approvalRules, approveReqs, submitReqs,
            adminOps, terminalWrites>>

jsVars == <<jsExpenses, jsApprovalSteps, jsRules, jsDecides, jsWorkflows, jsCreated>>

fxVars == <<exchangeRates, jsExchangeRates, jsRateCache, liveRate, now, sinks,
            managerLinks, walk>>

vars == <<tsVars, jsVars, fxVars>>

-----------------------------------------------------------------------------
(* Bounds of the model.                                                    *)

MaxApprove == 2      \* concurrent approveExpense calls
MaxSubmit == 2       \* concurrent submitExpense calls
MaxAdminOps == 1     \* admin rule operations in one behaviour
MaxSteps == 5        \* steps of a seeded snapshot, every status vector
LargeCohort == 50    \* steps of a seeded large cohort (approved prefix, pending rest)
MaxJsDecide == 2     \* concurrent processApproval calls of the JavaScript backend
MaxJsWorkflows == 2  \* submitExpense / resetApprovalWorkflow calls of the JavaScript backend
MaxClock == 2        \* hours the clock may advance in one behaviour
MaxWalk == 6         \* managers one getManagerHierarchy call may collect before the model stops it

-----------------------------------------------------------------------------
(* Optional values: Null for an absent string, None/Some for a number.     *)

Null == "null"
None == <<>>
Some(x) == <<x>>

UserId(i) == "u" \o ToString(i)

EmptyTable == [k \in {} |-> Null]

-----------------------------------------------------------------------------
(* Organisation: the users table, fixed during a behaviour.                *)

TheCompany == "c1"

OtherCompany == "c2"

users ==
  [ emp  |-> [companyId |-> TheCompany, role |-> "EMPLOYEE", managerId |-> "mgr1", isActive |-> TRUE],
    mgr1 |-> [companyId |-> TheCompany, role |-> "MANAGER",  managerId |-> "adm",  isActive |-> TRUE],
    adm  |-> [companyId |-> TheCompany, role |-> "ADMIN",    managerId |-> Null,   isActive |-> TRUE],
    old  |-> [companyId |-> TheCompany, role |-> "MANAGER",  managerId |-> Null,   isActive |-> FALSE] ]

UserIds == DOMAIN users

\* The users who own an expense in this model.
Submitters == {"emp", "mgr1", "adm"}

\* A getManagerHierarchy call that has not started.
IdleWalk == [pc |-> "idle", userId |-> Null, currentUser |-> Null, managers |-> <<>>]

\* The manager links of the seeded organisation, no call in flight.
OrgInit ==
  /\ managerLinks = [u \in UserIds |-> users[u].managerId]
  /\ walk = IdleWalk

\* prisma.user.findMany returns rows in table order.
UserOrder == <<"emp", "mgr1", "adm", "old">>

ExpenseIds == {"e1"}

WAITING == "WAITING_APPROVAL"

-----------------------------------------------------------------------------
(* ApprovalEngine: rule selection.                                         *)

Rule(type, th, spec, cat, min, max, prio, active) ==
  [ companyId |-> TheCompany, type |-> type, thresholdPercent |-> th,
    specificApproverId |-> spec, appliesToCategory |-> cat,
    minAmount |-> min, maxAmount |-> max, priority |-> prio, isActive |-> active ]

\* A matcher whose where clause lacks isActive: true.
getApplicableRulesAnyActivity(rules, companyId, category, amount) ==
  { id \in DOMAIN rules :
      /\ rules[id].companyId = companyId
      /\ (category # Null =>
            (rules[id].appliesToCategory = category \/ rules[id].appliesToCategory = Null))
      /\ (rules[id].minAmount = None \/ rules[id].minAmount[1] <= amount)
      /\ (rules[id].maxAmount = None \/ rules[id].maxAmount[1] >= amount) }

\* The rows prisma.approvalRule.findMany returns for the where clause built
\* from (companyId, context).
getApplicableRules(rules, companyId, category, amount) ==
  { id \in DOMAIN rules :
      /\ rules[id].companyId = companyId
      /\ rules[id].isActive
      /\ (category # Null =>
            (rules[id].appliesToCategory = category \/ rules[id].appliesToCategory = Null))
      /\ (rules[id].minAmount = None \/ rules[id].minAmount[1] <= amount)
      /\ (rules[id].maxAmount = None \/ rules[id].maxAmount[1] >= amount) }

\* rules.sort((a, b) => b.priority - a.priority)[0]: a rule of the highest
\* priority; findMany has no orderBy, so among equal priorities the store's
\* row order decides and any of them can come first.
TopRules(rules, ids) ==
  { id \in ids : \A other \in ids : rules[other].priority <= rules[id].priority }

-----------------------------------------------------------------------------
(* ApprovalEngine: the approvers each rule type creates steps for.         *)

RECURSIVE ManagerChain(_, _)
\* getManagerHierarchy: follow manager links upward from userId; fuel bounds
\* the walk of the model (the organisation above has no cycle).
ManagerChain(userId, fuel) ==
  IF fuel = 0 \/ users[userId].managerId = Null
    THEN <<>>
    ELSE <<users[userId].managerId>> \o ManagerChain(users[userId].managerId, fuel - 1)

getManagerHierarchy(userId) == ManagerChain(userId, Cardinality(UserIds))

\* getAllManagers: active MANAGER and ADMIN users of the company.
getAllManagers(companyId) ==
  SelectSeq(UserOrder, LAMBDA u :
     /\ users[u].companyId = companyId
     /\ users[u].role \in {"MANAGER", "ADMIN"}
     /\ users[u].isActive)

Step(approverId, sequenceIndex) ==
  [approverId |-> approverId, sequenceIndex |-> sequenceIndex]

RECURSIVE IndexedSteps(_, _)
IndexedSteps(approvers, i) ==
  IF i > Len(approvers) THEN <<>>
  ELSE <<Step(approvers[i], i - 1)>> \o IndexedSteps(approvers, i + 1)

\* Variant of createSequentialApproval that gives every manager of the chain
\* the sequenceIndex 0.
createSequentialApprovalFlat(userId) ==
  LET chain == getManagerHierarchy(userId)
  IN  [i \in 1..Len(chain) |-> Step(chain[i], 0)]

createSequentialApproval(userId) == IndexedSteps(getManagerHierarchy(userId), 1)

createParallelApproval(rule) ==
  LET approvers == getAllManagers(rule.companyId)
  IN  [i \in 1..Len(approvers) |-> Step(approvers[i], 0)]

createSpecificApproval(rule) == <<Step(rule.specificApproverId, 0)>>

createHybridApproval(rule) ==
  LET approvers == SelectSeq(getAllManagers(rule.companyId),
                             LAMBDA u : u # rule.specificApproverId)
  IN  (IF rule.specificApproverId # Null
         THEN <<Step(rule.specificApproverId, 0)>> ELSE <<>>)
      \o [i \in 1..Len(approvers) |-> Step(approvers[i], 1)]

\* applyRule: the inserts the rule type issues, in order; SPECIFIC without an
\* approver throws before any insert.
applyRuleThrows(rule) == rule.type = "SPECIFIC" /\ rule.specificApproverId = Null

applyRule(rule, userId) ==
  CASE rule.type = "SEQUENTIAL" -> createSequentialApproval(userId)
    [] rule.type = "PARALLEL"   -> createParallelApproval(rule)
    [] rule.type = "PERCENTAGE" -> createParallelApproval(rule)
    [] rule.type = "SPECIFIC"   -> createSpecificApproval(rule)
    [] rule.type = "HYBRID"     -> createHybridApproval(rule)

-----------------------------------------------------------------------------
(* ApprovalEngine: status evaluation over a step snapshot.                 *)
(* Each evaluator returns [status, write]: the value returned and whether  *)
(* prisma.expense.update({status}) was issued with it.                     *)

Result(status, write) == [status |-> status, write |-> write]

Count(steps, status) ==
  Cardinality({i \in 1..Len(steps) : steps[i].status = status})

\* action.toUpperCase() on the two actions approveExpenseSchema admits.
toUpperCase(action) ==
  CASE action = "approve" -> "APPROVE"
    [] action = "reject"  -> "REJECT"

RECURSIVE SortBySequenceIndex(_)
\* orderBy: { sequenceIndex: 'asc' } / Array.sort by sequenceIndex.
SortBySequenceIndex(S) ==
  IF S = {} THEN <<>>
  ELSE LET first == CHOOSE s \in S : \A t \in S : s.sequenceIndex <= t.sequenceIndex
       IN  <<first>> \o SortBySequenceIndex(S \ {first})

RECURSIVE ScanSequential(_, _)
ScanSequential(sortedSteps, i) ==
  IF i > Len(sortedSteps) THEN Result("APPROVED", TRUE)
  ELSE IF sortedSteps[i].status = "PENDING" THEN Result(WAITING, FALSE)
  ELSE IF sortedSteps[i].status = "REJECTED" THEN Result("REJECTED", TRUE)
  ELSE ScanSequential(sortedSteps, i + 1)

evaluateSequential(approvalSteps_) == ScanSequential(approvalSteps_, 1)

\* Pairs <<approved, total>> with total <= LargeCohort for which the IEEE-754
\* double (approved / total) * 100 is smaller than the exact integer quotient
\* approved * 100 / total: 29 / 50 * 100 evaluates to 57.99999999999999.
RoundsBelow == {<<29, 50>>}

\* (approvedSteps / totalSteps) * 100 >= threshold on JavaScript numbers:
\* 0 / 0 is NaN and every comparison with NaN is false; otherwise the double
\* compares like the exact quotient except where it rounds below an integer.
approvalPercentageAtLeast(approvedSteps, totalSteps, threshold) ==
  /\ totalSteps # 0
  /\ IF <<approvedSteps, totalSteps>> \in RoundsBelow
       THEN approvedSteps * 100 > threshold * totalSteps
       ELSE approvedSteps * 100 >= threshold * totalSteps

evaluatePercentage(approvalSteps_, threshold) ==
  LET totalSteps == Len(approvalSteps_)
      approvedSteps == Count(approvalSteps_, "APPROVED")
  IN  IF approvalPercentageAtLeast(approvedSteps, totalSteps, threshold)
        THEN Result("APPROVED", TRUE)
        ELSE Result(WAITING, FALSE)

\* A SPECIFIC evaluation that waits for every step, as a sequential one does.
evaluateSpecificAllSteps(approvalSteps_) ==
  IF Count(approvalSteps_, "APPROVED") = Len(approvalSteps_)
    THEN Result("APPROVED", TRUE)
    ELSE Result(WAITING, FALSE)

evaluateSpecific(approvalSteps_) ==
  IF Count(approvalSteps_, "APPROVED") > 0
    THEN Result("APPROVED", TRUE)
    ELSE Result(WAITING, FALSE)

DefaultThreshold == 50
HybridDefaultThreshold == 60

\* rule.thresholdPercent || dflt: null, undefined and 0 are falsy.
thresholdOr(rule, dflt) ==
  IF rule.thresholdPercent = None \/ rule.thresholdPercent[1] = 0
    THEN dflt ELSE rule.thresholdPercent[1]

evaluateHybrid(approvalSteps_, rule) ==
  IF \E i \in 1..Len(approvalSteps_) :
        /\ approvalSteps_[i].approverId = rule.specificApproverId
        /\ approvalSteps_[i].status = "APPROVED"
    THEN Result("APPROVED", TRUE)
    ELSE evaluatePercentage(approvalSteps_, thresholdOr(rule, HybridDefaultThreshold))

evaluateApprovalStatus(expenseStatus, approvalSteps_, rule) ==
  IF Count(approvalSteps_, "REJECTED") > 0 THEN Result("REJECTED", TRUE)
  ELSE CASE rule.type = "SEQUENTIAL" -> evaluateSequential(approvalSteps_)
         [] rule.type \in {"PARALLEL", "PERCENTAGE"} ->
              evaluatePercentage(approvalSteps_, thresholdOr(rule, DefaultThreshold))
         [] rule.type = "SPECIFIC" -> evaluateSpecific(approvalSteps_)
         [] rule.type = "HYBRID" -> evaluateHybrid(approvalSteps_, rule)
         [] OTHER -> Result(expenseStatus, FALSE)

-----------------------------------------------------------------------------
(* Store rows and request records.                                         *)

TheExpense == "e1"

StepId(expenseId, approverId) == <<expenseId, approverId>>

StepRow(expenseId, step) ==
  [ expenseId |-> expenseId, approverId |-> step.approverId,
    sequenceIndex |-> step.sequenceIndex, status |-> "PENDING", actionBy |-> Null ]

\* expense.approvalSteps of a findUnique with include: the steps of the expense.
StepsOf(steps, expenseId) ==
  { steps[id] : id \in { k \in DOMAIN steps : k[1] = expenseId } }

DefaultCurrency == "USD"

ForeignCurrency == "EUR"

\* Two decimals: a rate of 1 is RateUnit, toFixed(2) keeps hundredths.
RateUnit == 100

\* Age in hours up to which a cached rate is reused.
FreshnessWindow == 1

BlankRule == Rule("NONE", None, Null, Null, None, None, 0, FALSE)

\* Amounts are in hundredths of the currency unit, rates in hundredths.
DraftExpense ==
  [ companyId |-> TheCompany, userId |-> "emp", category |-> "Travel",
    originalAmount |-> 500, originalCurrency |-> DefaultCurrency,
    convertedAmount |-> None, conversionRate |-> None, rateTimestamp |-> None,
    status |-> "DRAFT" ]

IdleApprove ==
  [ pc |-> "idle", userId |-> Null, action |-> Null, expenseId |-> Null,
    stepId |-> <<>>, expense |-> DraftExpense, steps |-> <<>>,
    rule |-> BlankRule, result |-> Null, finalStatus |-> Null ]

IdleSubmit ==
  [ pc |-> "idle", userId |-> Null, expenseId |-> Null, expense |-> DraftExpense,
    convertedAmount |-> None, conversionRate |-> None, rateTimestamp |-> None,
    rule |-> BlankRule, toCreate |-> <<>>, created |-> 0, result |-> Null ]

\* Number(expense.convertedAmount): Number(null) is 0.
NumberOf(opt) == IF opt = None THEN 0 ELSE opt[1]

\* A call that has responded keeps what the response carries; the working
\* values of the handler are gone with its stack frame.
SinksUp == [audit |-> TRUE, notify |-> TRUE]

\* Variant of AuditService.log whose catch block rethrows.
AuditServiceLogRethrows(up) == IF up THEN "resolved" ELSE "rejected"

\* AuditService.log: prisma.auditLog.create inside try/catch; the catch block
\* logs 'Failed to create audit log' and does not rethrow.
AuditServiceLog(up) == IF up THEN "resolved" ELSE "resolved"

\* NotificationService.notifyExpenseSubmitted / Approved / Rejected: the whole
\* body inside try/catch; the catch block logs and does not rethrow.
NotificationServiceNotify(up) == IF up THEN "resolved" ELSE "resolved"

\* auditLog of the JavaScript backend: INSERT INTO audit_logs inside
\* try/catch; the catch block logs and does not rethrow.
auditLog(up) == IF up THEN "resolved" ELSE "resolved"

\* The response of a handler that awaited these calls after its writes: a
\* rejected await reaches the error handler.
Responded(awaited, result) == IF "rejected" \in awaited THEN "error" ELSE result

TsResponded(result) ==
  Responded({NotificationServiceNotify(sinks.notify), AuditServiceLog(sinks.audit)}, result)

JsResponded(result) == Responded({auditLog(sinks.audit)}, result)

ApproveFailed(result) == [IdleApprove EXCEPT !.pc = "done", !.result = result]

ApproveDone(req, finalStatus) ==
  [IdleApprove EXCEPT !.pc = "done", !.result = TsResponded("ok"), !.userId = req.userId,
                      !.action = req.action, !.expenseId = req.expenseId,
                      !.stepId = req.stepId, !.finalStatus = finalStatus]

SubmitFailed(result) == [IdleSubmit EXCEPT !.pc = "done", !.result = result]

SubmitDone(req, result, created) ==
  [IdleSubmit EXCEPT !.pc = "done", !.result = result, !.userId = req.userId,
                     !.expenseId = req.expenseId, !.created = created]

\* Request slots are taken in order, so that permuting the slots of a
\* behaviour gives no new state.
MayStart(reqs, r) ==
  reqs[r].pc = "idle" /\ (IF r = 1 THEN TRUE ELSE reqs[r - 1].pc # "idle")

-----------------------------------------------------------------------------
(* ExpenseController.approveExpense                                        *)

\* findUnique of the expense with the caller's steps, and the three checks.
ApproveFind(r, userId, action, id) ==
  /\ MayStart(approveReqs, r)
  /\ LET expense == expenses[id]
         sid == StepId(id, userId)
         started == [IdleApprove EXCEPT !.userId = userId, !.action = action,
                                        !.expenseId = id]
     IN  approveReqs' = [approveReqs EXCEPT ![r] =
           IF expense.companyId # users[userId].companyId
             THEN ApproveFailed("NotFound")
           ELSE IF expense.status # WAITING
             THEN ApproveFailed("NotWaiting")
           ELSE IF ~(sid \in DOMAIN approvalSteps /\ approvalSteps[sid].status = "PENDING")
             THEN ApproveFailed("NotAuthorized")
           ELSE [started EXCEPT !.pc = "update", !.stepId = sid]]
  /\ UNCHANGED <<jsVars, fxVars>>
  /\ UNCHANGED <<expenses, approvalSteps, approvalRules, submitReqs, adminOps, terminalWrites>>

\* prisma.approvalStep.update({ where: { id }, data: { status: action.toUpperCase(), ... } })
ApproveUpdate(r) ==
  /\ approveReqs[r].pc = "update"
  /\ approvalSteps' = [approvalSteps EXCEPT ![approveReqs[r].stepId] =
        [@ EXCEPT !.status = toUpperCase(approveReqs[r].action),
                  !.actionBy = approveReqs[r].userId]]
  /\ approveReqs' = [approveReqs EXCEPT ![r].pc = "process"]
  /\ UNCHANGED <<jsVars, fxVars>>
  /\ UNCHANGED <<expenses, approvalRules, submitReqs, adminOps, terminalWrites>>

\* ApprovalEngine.processApproval: findUnique of the expense with all its steps.
ProcessApprovalFind(r) ==
  /\ approveReqs[r].pc = "process"
  /\ approveReqs' = [approveReqs EXCEPT ![r] =
        [@ EXCEPT !.pc = "rules",
                  !.expense = expenses[approveReqs[r].expenseId],
                  !.steps = SortBySequenceIndex(
                              StepsOf(approvalSteps, approveReqs[r].expenseId))]]
  /\ UNCHANGED <<jsVars, fxVars>>
  /\ UNCHANGED <<expenses, approvalSteps, approvalRules, submitReqs, adminOps, terminalWrites>>

\* ApprovalEngine.processApproval: the rules now applicable to the expense;
\* none: the stored status is returned and nothing is evaluated.
ProcessApprovalRules(r) ==
  /\ approveReqs[r].pc = "rules"
  /\ LET expense == approveReqs[r].expense
         ids == getApplicableRules(approvalRules, expense.companyId, expense.category,
                                   NumberOf(expense.convertedAmount))
     IN  IF ids = {}
           THEN approveReqs' = [approveReqs EXCEPT ![r] = ApproveDone(@, expense.status)]
           ELSE \E rid \in TopRules(approvalRules, ids) :
                  approveReqs' = [approveReqs EXCEPT ![r] =
                    [@ EXCEPT !.pc = "evaluate", !.rule = approvalRules[rid]]]
  /\ UNCHANGED <<jsVars, fxVars>>
  /\ UNCHANGED <<expenses, approvalSteps, approvalRules, submitReqs, adminOps, terminalWrites>>

\* ApprovalEngine.evaluateApprovalStatus on the snapshot read before, and the
\* expense.update it issues.
EvaluateApprovalStatus(r) ==
  /\ approveReqs[r].pc = "evaluate"
  /\ LET req == approveReqs[r]
         res == evaluateApprovalStatus(req.expense.status, req.steps, req.rule)
     IN  /\ approveReqs' = [approveReqs EXCEPT ![r] = ApproveDone(@, res.status)]
         /\ expenses' = IF res.write
                          THEN [expenses EXCEPT ![req.expenseId].status = res.status]
                          ELSE expenses
         /\ terminalWrites' = IF res.write THEN terminalWrites + 1 ELSE terminalWrites
  /\ UNCHANGED <<jsVars, fxVars>>
  /\ UNCHANGED <<approvalSteps, approvalRules, submitReqs, adminOps>>

-----------------------------------------------------------------------------
(* ExpenseController.submitExpense                                         *)

\* Variant of the checks of submitExpense that calls convertCurrency whatever
\* the two currencies are.
SubmitFindAlwaysConverts(r, userId, id) ==
  /\ MayStart(submitReqs, r)
  /\ LET expense == expenses[id]
         started == [IdleSubmit EXCEPT !.userId = userId, !.expenseId = id,
                                       !.expense = expense]
     IN  submitReqs' = [submitReqs EXCEPT ![r] =
           IF expense.companyId # users[userId].companyId
             THEN SubmitFailed("NotFound")
           ELSE IF expense.userId # userId
             THEN SubmitFailed("NotOwner")
           ELSE IF expense.status # "DRAFT"
             THEN SubmitFailed("NotDraft")
           ELSE [started EXCEPT !.pc = "convert"]]
  /\ UNCHANGED <<jsVars, fxVars>>
  /\ UNCHANGED <<expenses, approvalSteps, approvalRules, approveReqs, adminOps, terminalWrites>>

\* Variant of the checks of submitExpense without the status check.
SubmitFindAnyStatus(r, userId, id) ==
  /\ MayStart(submitReqs, r)
  /\ LET expense == expenses[id]
         started == [IdleSubmit EXCEPT !.userId = userId, !.expenseId = id,
                                       !.expense = expense]
     IN  submitReqs' = [submitReqs EXCEPT ![r] =
           IF expense.companyId # users[userId].companyId
             THEN SubmitFailed("NotFound")
           ELSE IF expense.userId # userId
             THEN SubmitFailed("NotOwner")
           ELSE [started EXCEPT !.pc = "update",
                                !.convertedAmount = Some(expense.originalAmount),
                                !.conversionRate = Some(RateUnit),
                                !.rateTimestamp = Some(now)]]
  /\ UNCHANGED <<jsVars, fxVars>>
  /\ UNCHANGED <<expenses, approvalSteps, approvalRules, approveReqs, adminOps, terminalWrites>>

\* findUnique of the expense and the three checks; when the expense's
\* currency is the company's default currency the amount is kept, the rate
\* is 1 and the timestamp is the current time, otherwise
\* CurrencyService.convertCurrency is called.
SubmitFind(r, userId, id) ==
  /\ MayStart(submitReqs, r)
  /\ LET expense == expenses[id]
         started == [IdleSubmit EXCEPT !.userId = userId, !.expenseId = id,
                                       !.expense = expense]
     IN  submitReqs' = [submitReqs EXCEPT ![r] =
           IF expense.companyId # users[userId].companyId
             THEN SubmitFailed("NotFound")
           ELSE IF expense.userId # userId
             THEN SubmitFailed("NotOwner")
           ELSE IF expense.status # "DRAFT"
             THEN SubmitFailed("NotDraft")
           ELSE IF expense.originalCurrency # DefaultCurrency
             THEN [started EXCEPT !.pc = "convert"]
           ELSE [started EXCEPT !.pc = "update",
                                !.convertedAmount = Some(expense.originalAmount),
                                !.conversionRate = Some(RateUnit),
                                !.rateTimestamp = Some(now)]]
  /\ UNCHANGED <<jsVars, fxVars>>
  /\ UNCHANGED <<expenses, approvalSteps, approvalRules, approveReqs, adminOps, terminalWrites>>

\* Number((amount * rate).toFixed(2)): the product rounded to hundredths; a
\* product half-way between two hundredths goes either way, as the binary
\* double nearest to it lies on either side.
ConvertedAmounts(amount, rate) ==
  LET product == amount * rate
      q == product \div RateUnit
      rem == product % RateUnit
  IN  IF 2 * rem < RateUnit THEN {q}
      ELSE IF 2 * rem > RateUnit THEN {q + 1}
      ELSE {q, q + 1}

\* CurrencyService.getCachedRate: the newest entry not older than one hour.
getCachedRate(rates, time) ==
  LET fresh == { t \in DOMAIN rates : t >= time - FreshnessWindow }
  IN  IF fresh = {} THEN None
      ELSE Some(CHOOSE t \in fresh : \A u \in fresh : u <= t)

\* CurrencyService.convertCurrency, first await: the cache lookup. A hit
\* returns the cached rate and the cached entry's timestamp.
GetCachedRate(r) ==
  /\ submitReqs[r].pc = "convert"
  /\ LET cached == getCachedRate(exchangeRates, now)
     IN  IF cached = None
           THEN submitReqs' = [submitReqs EXCEPT ![r].pc = "fetch"]
           ELSE \E c \in ConvertedAmounts(submitReqs[r].expense.originalAmount,
                                          exchangeRates[cached[1]]) :
                  submitReqs' = [submitReqs EXCEPT ![r] =
                    [@ EXCEPT !.pc = "update", !.convertedAmount = Some(c),
                              !.conversionRate = Some(exchangeRates[cached[1]]),
                              !.rateTimestamp = cached]]
  /\ UNCHANGED <<jsVars, fxVars>>
  /\ UNCHANGED <<expenses, approvalSteps, approvalRules, approveReqs, adminOps, terminalWrites>>

\* CurrencyService.convertCurrency, second await: the external rate source.
\* A failure is rethrown and submitExpense ends before any write.
FetchRate(r) ==
  /\ submitReqs[r].pc = "fetch"
  /\ submitReqs' = [submitReqs EXCEPT ![r] =
        IF liveRate = None
          THEN SubmitDone(@, "error", 0)
          ELSE [@ EXCEPT !.pc = "cache", !.conversionRate = liveRate,
                         !.rateTimestamp = Some(now)]]
  /\ UNCHANGED <<jsVars, fxVars>>
  /\ UNCHANGED <<expenses, approvalSteps, approvalRules, approveReqs, adminOps, terminalWrites>>

\* CurrencyService.cacheRate: exchangeRate.create; a violation of the unique
\* index on (base, target, timestamp) is logged and swallowed.
CacheRate(r) ==
  /\ submitReqs[r].pc = "cache"
  /\ LET req == submitReqs[r]
         t == req.rateTimestamp[1]
     IN  /\ exchangeRates' = IF t \in DOMAIN exchangeRates THEN exchangeRates
                             ELSE exchangeRates @@ (t :> req.conversionRate[1])
         /\ \E c \in ConvertedAmounts(req.expense.originalAmount, req.conversionRate[1]) :
              submitReqs' = [submitReqs EXCEPT ![r] =
                [@ EXCEPT !.pc = "update", !.convertedAmount = Some(c)]]
  /\ UNCHANGED jsVars
  /\ UNCHANGED <<jsExchangeRates, jsRateCache, liveRate, now, sinks, managerLinks, walk>>
  /\ UNCHANGED <<expenses, approvalSteps, approvalRules, approveReqs, adminOps, terminalWrites>>

\* The environment: time passes, and the external source changes its answer.
Tick ==
  /\ now < MaxClock
  /\ now' = now + 1
  /\ UNCHANGED <<tsVars, jsVars, exchangeRates, jsExchangeRates, jsRateCache, liveRate, sinks, managerLinks, walk>>

LiveRates == {None, Some(110), Some(125)}

LiveRateChange(rate) ==
  /\ rate # liveRate
  /\ liveRate' = rate
  /\ UNCHANGED <<tsVars, jsVars, exchangeRates, jsExchangeRates, jsRateCache, now, sinks, managerLinks, walk>>

\* prisma.expense.update: conversion fields and status WAITING_APPROVAL.
SubmitUpdate(r) ==
  /\ submitReqs[r].pc = "update"
  /\ expenses' = [expenses EXCEPT ![submitReqs[r].expenseId] =
        [@ EXCEPT !.convertedAmount = submitReqs[r].convertedAmount,
                  !.conversionRate = submitReqs[r].conversionRate,
                  !.rateTimestamp = submitReqs[r].rateTimestamp,
                  !.status = WAITING]]
  /\ submitReqs' = [submitReqs EXCEPT ![r].pc = "rules"]
  /\ UNCHANGED <<jsVars, fxVars>>
  /\ UNCHANGED <<approvalSteps, approvalRules, approveReqs, adminOps, terminalWrites>>

\* ApprovalEngine.createApprovalSteps: the applicable rules; none: return with
\* no step. Otherwise the top rule's approvers are resolved (applyRule).
CreateApprovalSteps(r) ==
  /\ submitReqs[r].pc = "rules"
  /\ LET req == submitReqs[r]
         ids == getApplicableRules(approvalRules, users[req.userId].companyId,
                                   req.expense.category, NumberOf(req.convertedAmount))
     IN  IF ids = {}
           THEN submitReqs' = [submitReqs EXCEPT ![r] = SubmitDone(@, TsResponded("ok"), 0)]
           ELSE \E rid \in TopRules(approvalRules, ids) :
                  LET rule == approvalRules[rid]
                      inserts == IF applyRuleThrows(rule) THEN <<>>
                                 ELSE applyRule(rule, req.userId)
                  IN submitReqs' = [submitReqs EXCEPT ![r] =
                       IF applyRuleThrows(rule)
                         THEN SubmitDone(@, "error", 0)
                       ELSE IF inserts = <<>>
                         THEN SubmitDone(@, TsResponded("ok"), 0)
                       ELSE [@ EXCEPT !.pc = "create", !.rule = rule, !.toCreate = inserts]]
  /\ UNCHANGED <<jsVars, fxVars>>
  /\ UNCHANGED <<expenses, approvalSteps, approvalRules, approveReqs, adminOps, terminalWrites>>

\* One prisma.approvalStep.create; the unique index on (expense_id,
\* approver_id) makes a second insert of the same pair throw.
CreateStep(r) ==
  /\ submitReqs[r].pc = "create"
  /\ LET req == submitReqs[r]
         step == Head(req.toCreate)
         sid == StepId(req.expenseId, step.approverId)
     IN  IF sid \in DOMAIN approvalSteps
           THEN /\ submitReqs' = [submitReqs EXCEPT ![r] = SubmitDone(@, "error", @.created)]
                /\ UNCHANGED approvalSteps
           ELSE /\ approvalSteps' = approvalSteps @@ (sid :> StepRow(req.expenseId, step))
                /\ submitReqs' = [submitReqs EXCEPT ![r] =
                     IF Len(req.toCreate) = 1
                       THEN SubmitDone(@, TsResponded("ok"), @.created + 1)
                       ELSE [@ EXCEPT !.toCreate = Tail(@), !.created = @ + 1]]
  /\ UNCHANGED <<jsVars, fxVars>>
  /\ UNCHANGED <<expenses, approvalRules, approveReqs, adminOps, terminalWrites>>

-----------------------------------------------------------------------------
(* AdminController: rule management.                                       *)

RuleIds == {"r1", "r2"}

\* The rule bodies an admin submits in this model (createRuleSchema admits
\* them all); the expense of the model is a Travel expense of 500.
RuleMenu ==
  { Rule("SEQUENTIAL", None, Null, "Travel", None, None, 1, TRUE),
    Rule("PARALLEL", None, Null, Null, None, None, 1, TRUE),
    Rule("PERCENTAGE", Some(60), Null, Null, None, None, 1, TRUE),
    Rule("SPECIFIC", None, "adm", Null, None, None, 1, TRUE),
    Rule("SPECIFIC", None, Null, Null, None, None, 1, TRUE),
    Rule("HYBRID", None, "adm", Null, None, None, 1, TRUE),
    Rule("SEQUENTIAL", None, Null, "Food", None, None, 1, TRUE),
    Rule("PARALLEL", None, Null, Null, Some(1000), None, 1, TRUE),
    Rule("SPECIFIC", None, "mgr1", Null, None, Some(100), 1, TRUE) }

\* The specific approver must exist and belong to the admin's company.
ValidApprover(rule) ==
  rule.specificApproverId # Null =>
    /\ rule.specificApproverId \in UserIds
    /\ users[rule.specificApproverId].companyId = rule.companyId

\* The rules an admin adds while a workflow is in flight: one of higher
\* priority than the configured rule, one of equal priority.
CreateMenu ==
  { Rule("PERCENTAGE", Some(60), Null, Null, None, None, 2, TRUE),
    Rule("SPECIFIC", None, "adm", Null, None, None, 1, TRUE) }

\* The request bodies of an update: fields left out are undefined and kept.
UpdateMenu == { [isActive |-> FALSE], [type |-> "PARALLEL"], [type |-> "SEQUENTIAL"] }

ApplyUpdate(rule, data) ==
  [f \in DOMAIN rule |-> IF f \in DOMAIN data THEN data[f] ELSE rule[f]]

createApprovalRule(id, rule) ==
  /\ adminOps < MaxAdminOps
  /\ id \notin DOMAIN approvalRules
  /\ ValidApprover(rule)
  /\ approvalRules' = approvalRules @@ (id :> rule)
  /\ adminOps' = adminOps + 1
  /\ UNCHANGED <<jsVars, fxVars>>
  /\ UNCHANGED <<expenses, approvalSteps, approveReqs, submitReqs, terminalWrites>>

\* prisma.approvalRule.update with the fields of the request body.
updateApprovalRule(id, data) ==
  /\ adminOps < MaxAdminOps
  /\ id \in DOMAIN approvalRules
  /\ ValidApprover(ApplyUpdate(approvalRules[id], data))
  /\ approvalRules' = [approvalRules EXCEPT ![id] = ApplyUpdate(@, data)]
  /\ adminOps' = adminOps + 1
  /\ UNCHANGED <<jsVars, fxVars>>
  /\ UNCHANGED <<expenses, approvalSteps, approveReqs, submitReqs, terminalWrites>>

\* Variant of deleteApprovalRule that also deletes the approval steps.
deleteApprovalRuleCascade(id) ==
  /\ adminOps < MaxAdminOps
  /\ id \in DOMAIN approvalRules
  /\ approvalRules' = [k \in DOMAIN approvalRules \ {id} |-> approvalRules[k]]
  /\ approvalSteps' = EmptyTable
  /\ adminOps' = adminOps + 1
  /\ UNCHANGED <<jsVars, fxVars>>
  /\ UNCHANGED <<expenses, approveReqs, submitReqs, terminalWrites>>

deleteApprovalRule(id) ==
  /\ adminOps < MaxAdminOps
  /\ id \in DOMAIN approvalRules
  /\ approvalRules' = [k \in DOMAIN approvalRules \ {id} |-> approvalRules[k]]
  /\ adminOps' = adminOps + 1
  /\ UNCHANGED <<jsVars, fxVars>>
  /\ UNCHANGED <<expenses, approvalSteps, approveReqs, submitReqs, terminalWrites>>

-----------------------------------------------------------------------------
(* JavaScript backend: rows, requests and the approvers of a rule.         *)

\* An active rule of the company for every category and amount.
JsRule(type, specific_approver_id, applies_to_role) ==
  [ company_id |-> TheCompany, is_active |-> TRUE, applies_to_category |-> Null,
    threshold_amount |-> None, type |-> type,
    specific_approver_id |-> specific_approver_id, applies_to_role |-> applies_to_role ]

\* The approval_rules table of the company, one value per configuration, in
\* the order of ORDER BY sequence_order ASC, created_at ASC.
JsRuleLists ==
  { <<>>,
    <<JsRule("sequential", Null, Null)>>,
    <<JsRule("parallel", Null, "manager")>>,
    <<JsRule("percentage", Null, Null)>>,
    <<JsRule("specific", "adm", Null)>>,
    <<JsRule("hybrid", Null, Null)>>,
    <<JsRule("percentage", Null, Null), JsRule("specific", "adm", Null)>>,
    <<JsRule("percentage", Null, Null), JsRule("hybrid", Null, Null)>>,
    <<[JsRule("specific", "adm", Null) EXCEPT !.is_active = FALSE],
      [JsRule("specific", "adm", Null) EXCEPT !.applies_to_category = "Food"],
      [JsRule("specific", "adm", Null) EXCEPT !.threshold_amount = Some(1000)],
      [JsRule("specific", "adm", Null) EXCEPT !.company_id = OtherCompany],
      JsRule("specific", "mgr1", Null)>> }

\* ApprovalRule.getApplicableRules: the active rules of the expense's company
\* whose category is unset or the expense's and whose threshold_amount is
\* unset or at most converted_amount || original_amount, in stored order.
jsGetApplicableRules(rules, expense) ==
  SelectSeq(rules, LAMBDA rule :
     /\ rule.company_id = expense.company_id
     /\ rule.is_active
     /\ rule.applies_to_category \in {Null, expense.category}
     /\ \/ rule.threshold_amount = None
        \/ rule.threshold_amount[1] <=
             (IF NumberOf(expense.converted_amount) # 0
                THEN NumberOf(expense.converted_amount) ELSE expense.original_amount))

jsRole(userId) ==
  CASE users[userId].role = "ADMIN"    -> "admin"
    [] users[userId].role = "MANAGER"  -> "manager"
    [] users[userId].role = "EMPLOYEE" -> "employee"

JsDraftExpense ==
  [ company_id |-> TheCompany, user_id |-> "emp", category |-> "Travel",
    original_amount |-> 500, original_currency |-> DefaultCurrency,
    converted_amount |-> None, conversion_rate |-> None, rate_timestamp |-> None,
    status |-> "draft" ]

RECURSIVE Reverse(_)
Reverse(seq) == IF seq = <<>> THEN <<>> ELSE Reverse(Tail(seq)) \o <<Head(seq)>>

\* User.findByCompany: ORDER BY u.created_at DESC; role is Null when the
\* filter is undefined.
findByCompany(companyId, role, is_active) ==
  SelectSeq(Reverse(UserOrder), LAMBDA u :
     /\ users[u].companyId = companyId
     /\ (role # Null => jsRole(u) = role)
     /\ users[u].isActive = is_active)

\* The manager of userId when there is one and it is active.
activeManagerOf(userId) ==
  IF users[userId].managerId # Null /\ users[users[userId].managerId].isActive
    THEN <<users[userId].managerId>> ELSE <<>>

getApproversForRule(rule, expense) ==
  CASE rule.type = "specific" ->
         IF rule.specific_approver_id # Null
            /\ rule.specific_approver_id \in UserIds
            /\ users[rule.specific_approver_id].isActive
           THEN <<rule.specific_approver_id>> ELSE <<>>
    [] rule.type = "percentage" -> activeManagerOf(expense.user_id)
    [] rule.type \in {"sequential", "parallel"} ->
         SelectSeq(findByCompany(expense.company_id,
                     IF rule.applies_to_role \in {"admin", "manager"}
                       THEN rule.applies_to_role ELSE Null,
                     TRUE),
                   LAMBDA u : u # expense.user_id /\ jsRole(u) \in {"admin", "manager"})
    [] rule.type = "hybrid" ->
         activeManagerOf(expense.user_id)
         \o (IF NumberOf(IF expense.converted_amount = None
                           THEN Some(expense.original_amount)
                           ELSE expense.converted_amount) > 1000
               THEN SelectSeq(findByCompany(expense.company_id, "admin", TRUE),
                              LAMBDA a : a # expense.user_id)
               ELSE <<>>)
    [] OTHER -> <<>>

RECURSIVE WorkflowSteps(_, _, _)
\* The loop of createApprovalWorkflow over the rules: the inserts it issues,
\* in order, with the sequence index each one carries.
WorkflowSteps(rules, expense, sequenceIndex) ==
  IF rules = <<>> THEN <<>>
  ELSE LET rule == Head(rules)
           approvers == getApproversForRule(rule, expense)
           steps == [i \in 1..Len(approvers) |->
                       Step(approvers[i],
                            IF rule.type = "sequential"
                              THEN sequenceIndex + i - 1 ELSE sequenceIndex)]
           next == IF rule.type = "sequential"
                     THEN sequenceIndex + Len(approvers) ELSE sequenceIndex + 1
       IN  steps \o WorkflowSteps(Tail(rules), expense, next)

JsStepRow(expenseId, step) ==
  [ expense_id |-> expenseId, approver_id |-> step.approverId,
    sequence_index |-> step.sequenceIndex, status |-> "pending", action_by |-> Null ]

\* ApprovalStep.checkExpenseApprovalComplete: the three flags of the counts.
checkExpenseApprovalComplete(steps, expenseId) ==
  LET rows == { id \in DOMAIN steps : steps[id].expense_id = expenseId }
      total == Cardinality(rows)
      count(status) == Cardinality({ id \in rows : steps[id].status = status })
  IN  [ isComplete |-> count("pending") = 0,
        isApproved |-> count("rejected") = 0 /\ count("approved") = total,
        isRejected |-> count("rejected") > 0 ]

\* The counts of the same query: COUNT(*) and COUNT(CASE WHEN status =
\* 'approved' THEN 1 END) over the rows of the expense.
stepStats(steps, expenseId) ==
  LET rows == { id \in DOMAIN steps : steps[id].expense_id = expenseId }
  IN  [ total |-> Cardinality(rows),
        approved |-> Cardinality({ id \in rows : steps[id].status = "approved" }) ]

NoApprovalStatus == [isComplete |-> FALSE, isApproved |-> FALSE, isRejected |-> FALSE]

IdleJsDecide ==
  [ pc |-> "idle", stepId |-> 0, userId |-> Null, status |-> Null, expenseId |-> Null,
    approvalStatus |-> NoApprovalStatus, expenseStatus |-> Null, result |-> Null ]

\* rate, rateTimestamp: the result of convertAmount; rateFrom, rateAge,
\* sourceDown: where the rate came from, how old that entry was, and whether
\* the external source failed during the call.
IdleJsWorkflow ==
  [ pc |-> "idle", kind |-> Null, userId |-> Null, expenseId |-> Null,
    rate |-> None, rateTimestamp |-> None, rateFrom |-> Null, rateAge |-> None,
    sourceDown |-> FALSE,
    toCreate |-> <<>>, created |-> 0, result |-> Null ]

JsDecideFailed(result) == [IdleJsDecide EXCEPT !.pc = "done", !.result = result]

JsWorkflowDone(req, result) ==
  [IdleJsWorkflow EXCEPT !.pc = "done", !.kind = req.kind, !.userId = req.userId,
                         !.expenseId = req.expenseId, !.created = req.created,
                         !.result = result]

-----------------------------------------------------------------------------
(* JavaScript backend: approvalController.processApproval and              *)
(* ApprovalService.processApproval.  The models query through the pool, so *)
(* the BEGIN / COMMIT the service issues on its own client encloses none   *)
(* of their statements: every statement commits alone.                     *)

\* The controller: ApprovalStep.findById and the three checks.
JsProcessApproval(r, userId, action, stepId) ==
  /\ MayStart(jsDecides, r)
  /\ jsDecides' = [jsDecides EXCEPT ![r] =
       IF stepId \notin DOMAIN jsApprovalSteps
         THEN JsDecideFailed("NotFound")
       ELSE IF jsApprovalSteps[stepId].approver_id # userId
         THEN JsDecideFailed("NotAuthorized")
       ELSE IF jsApprovalSteps[stepId].status # "pending"
         THEN JsDecideFailed("AlreadyProcessed")
       ELSE [IdleJsDecide EXCEPT !.pc = "service", !.stepId = stepId, !.userId = userId,
                                 !.status = IF action = "approve" THEN "approved"
                                                                  ELSE "rejected"]]
  /\ UNCHANGED <<tsVars, fxVars>>
  /\ UNCHANGED <<jsExpenses, jsApprovalSteps, jsRules, jsWorkflows, jsCreated>>

\* The service: ApprovalStep.findById again, and its two throws.
JsProcessApprovalFind(r) ==
  /\ jsDecides[r].pc = "service"
  /\ LET stepId == jsDecides[r].stepId
     IN  jsDecides' = [jsDecides EXCEPT ![r] =
           IF stepId \notin DOMAIN jsApprovalSteps
             THEN JsDecideFailed("NotFound")
           ELSE IF jsApprovalSteps[stepId].status # "pending"
             THEN JsDecideFailed("AlreadyProcessed")
           ELSE [@ EXCEPT !.pc = "update",
                          !.expenseId = jsApprovalSteps[stepId].expense_id]]
  /\ UNCHANGED <<tsVars, fxVars>>
  /\ UNCHANGED <<jsExpenses, jsApprovalSteps, jsRules, jsWorkflows, jsCreated>>

\* ApprovalStep.updateStatus: UPDATE approval_steps SET status = $1 ... WHERE id = $4;
\* a row deleted meanwhile is not updated.
JsUpdateStatus(r) ==
  /\ jsDecides[r].pc = "update"
  /\ jsApprovalSteps' =
       IF jsDecides[r].stepId \in DOMAIN jsApprovalSteps
         THEN [jsApprovalSteps EXCEPT ![jsDecides[r].stepId] =
                 [@ EXCEPT !.status = jsDecides[r].status,
                           !.action_by = jsDecides[r].userId]]
         ELSE jsApprovalSteps
  /\ jsDecides' = [jsDecides EXCEPT ![r].pc = "check"]
  /\ UNCHANGED <<tsVars, fxVars>>
  /\ UNCHANGED <<jsExpenses, jsRules, jsWorkflows, jsCreated>>

\* ApprovalStep.checkExpenseApprovalComplete and the status derived from it;
\* the expense is written only when no step is pending.
JsCheckExpenseApprovalComplete(r) ==
  /\ jsDecides[r].pc = "check"
  /\ LET approvalStatus ==
           checkExpenseApprovalComplete(jsApprovalSteps, jsDecides[r].expenseId)
         expenseStatus == IF approvalStatus.isRejected THEN "rejected"
                          ELSE IF approvalStatus.isApproved THEN "approved"
                          ELSE "submitted"
     IN  jsDecides' = [jsDecides EXCEPT ![r] =
           [@ EXCEPT !.pc = IF approvalStatus.isComplete THEN "expense" ELSE "done",
                     !.result = IF approvalStatus.isComplete THEN Null ELSE JsResponded("ok"),
                     !.approvalStatus = approvalStatus,
                     !.expenseStatus = expenseStatus]]
  /\ UNCHANGED <<tsVars, fxVars>>
  /\ UNCHANGED <<jsExpenses, jsApprovalSteps, jsRules, jsWorkflows, jsCreated>>

\* Expense.update(step.expense_id, { status: expenseStatus, ... })
JsExpenseUpdate(r) ==
  /\ jsDecides[r].pc = "expense"
  /\ jsExpenses' = [jsExpenses EXCEPT ![jsDecides[r].expenseId].status =
                                         jsDecides[r].expenseStatus]
  /\ jsDecides' = [jsDecides EXCEPT ![r] = [@ EXCEPT !.pc = "done", !.result = JsResponded("ok")]]
  /\ UNCHANGED <<tsVars, fxVars>>
  /\ UNCHANGED <<jsApprovalSteps, jsRules, jsWorkflows, jsCreated>>

-----------------------------------------------------------------------------
(* JavaScript backend: submitExpense, ApprovalService.resetApprovalWorkflow *)
(* and the createApprovalWorkflow both of them run.                        *)

\* The controller: Expense.findById and the three checks.
JsSubmitExpense(w, userId, id) ==
  /\ MayStart(jsWorkflows, w)
  /\ LET started == [IdleJsWorkflow EXCEPT !.kind = "submit", !.userId = userId,
                                           !.expenseId = id]
     IN  jsWorkflows' = [jsWorkflows EXCEPT ![w] =
           IF jsExpenses[id].company_id # users[userId].companyId
             THEN JsWorkflowDone(started, "NotFound")
           ELSE IF jsExpenses[id].user_id # userId
             THEN JsWorkflowDone(started, "NotOwner")
           ELSE IF jsExpenses[id].status # "draft"
             THEN JsWorkflowDone(started, "NotDraft")
           ELSE [started EXCEPT !.pc = "select"]]
  /\ UNCHANGED <<tsVars, fxVars>>
  /\ UNCHANGED <<jsExpenses, jsApprovalSteps, jsRules, jsDecides, jsCreated>>

\* Expense.submit: SELECT * FROM expenses WHERE id = $1 AND status = 'draft'.
JsExpenseSubmitSelect(w) ==
  /\ jsWorkflows[w].pc = "select"
  /\ jsWorkflows' = [jsWorkflows EXCEPT ![w] =
       IF jsExpenses[jsWorkflows[w].expenseId].status # "draft"
         THEN JsWorkflowDone(@, "NotDraft")
       ELSE IF jsExpenses[jsWorkflows[w].expenseId].original_currency # DefaultCurrency
         THEN [@ EXCEPT !.pc = "rate"]
       ELSE [@ EXCEPT !.pc = "submit", !.rate = Some(RateUnit),
                      !.rateTimestamp = Some(now), !.rateFrom = "same"]]
  /\ UNCHANGED <<tsVars, fxVars>>
  /\ UNCHANGED <<jsExpenses, jsApprovalSteps, jsRules, jsDecides, jsCreated>>

\* CurrencyService.getExchangeRate: the in-memory cache of the pair, reused
\* while it is younger than cacheTimeout (10 minutes). The clock counts
\* hours: an entry written in the current hour is younger or older than the
\* timeout, an entry of an earlier hour is older.
JsGetExchangeRate(w) ==
  /\ jsWorkflows[w].pc = "rate"
  /\ \E fresh \in (IF jsRateCache # None /\ jsRateCache[1].timestamp = now
                     THEN BOOLEAN ELSE {FALSE}) :
       jsWorkflows' = [jsWorkflows EXCEPT ![w] =
         IF fresh
           THEN [@ EXCEPT !.pc = "submit", !.rate = Some(jsRateCache[1].rate),
                          !.rateTimestamp = Some(now), !.rateFrom = "memo",
                          !.rateAge = Some(now - jsRateCache[1].timestamp)]
           ELSE [@ EXCEPT !.pc = "fetch"]]
  /\ UNCHANGED <<tsVars, fxVars>>
  /\ UNCHANGED <<jsExpenses, jsApprovalSteps, jsRules, jsDecides, jsCreated>>

\* getExchangeRate, axios.get: on success this.cache.set(cacheKey, {rate,
\* timestamp}) replaces the entry of the pair; on failure the catch block runs.
JsFetchRate(w) ==
  /\ jsWorkflows[w].pc = "fetch"
  /\ IF liveRate = None
       THEN /\ jsWorkflows' = [jsWorkflows EXCEPT ![w] =
                 [@ EXCEPT !.pc = "fallback", !.sourceDown = TRUE]]
            /\ UNCHANGED jsRateCache
       ELSE /\ jsWorkflows' = [jsWorkflows EXCEPT ![w] =
                 [@ EXCEPT !.pc = "store", !.rate = liveRate, !.rateFrom = "live",
                           !.rateAge = Some(0)]]
            /\ jsRateCache' = Some([rate |-> liveRate[1], timestamp |-> now])
  /\ UNCHANGED <<exchangeRates, jsExchangeRates, liveRate, now, sinks, managerLinks, walk>>
  /\ UNCHANGED tsVars
  /\ UNCHANGED <<jsExpenses, jsApprovalSteps, jsRules, jsDecides, jsCreated>>

\* storeExchangeRate: INSERT INTO exchange_rates ... ON CONFLICT (base_currency,
\* target_currency, timestamp) DO NOTHING, the timestamp defaulting to NOW().
JsStoreExchangeRate(w) ==
  /\ jsWorkflows[w].pc = "store"
  /\ jsExchangeRates' = IF now \in DOMAIN jsExchangeRates THEN jsExchangeRates
                         ELSE jsExchangeRates @@ (now :> jsWorkflows[w].rate[1])
  /\ jsWorkflows' = [jsWorkflows EXCEPT ![w] =
       [@ EXCEPT !.pc = "submit", !.rateTimestamp = Some(now)]]
  /\ UNCHANGED <<exchangeRates, jsRateCache, liveRate, now, sinks, managerLinks, walk>>
  /\ UNCHANGED tsVars
  /\ UNCHANGED <<jsExpenses, jsApprovalSteps, jsRules, jsDecides, jsCreated>>

\* getExchangeRate, catch block: getLastKnownRate returns the newest row of
\* the pair whatever its age; without a row the error is thrown and
\* Expense.submit rolls its transaction back.
JsGetLastKnownRate(w) ==
  /\ jsWorkflows[w].pc = "fallback"
  /\ jsWorkflows' = [jsWorkflows EXCEPT ![w] =
       IF DOMAIN jsExchangeRates = {}
         THEN JsWorkflowDone(@, "error")
         ELSE LET t == CHOOSE u \in DOMAIN jsExchangeRates :
                         \A v \in DOMAIN jsExchangeRates : v <= u
              IN  [@ EXCEPT !.pc = "submit", !.rate = Some(jsExchangeRates[t]),
                            !.rateTimestamp = Some(now), !.rateFrom = "fallback",
                            !.rateAge = Some(now - t)]]
  /\ UNCHANGED <<tsVars, fxVars>>
  /\ UNCHANGED <<jsExpenses, jsApprovalSteps, jsRules, jsDecides, jsCreated>>

\* Expense.submit: UPDATE expenses SET converted_amount, conversion_rate,
\* rate_timestamp, status = 'submitted'.
JsExpenseSubmitUpdate(w) ==
  /\ jsWorkflows[w].pc = "submit"
  /\ LET req == jsWorkflows[w]
     IN  \E c \in ConvertedAmounts(jsExpenses[req.expenseId].original_amount, req.rate[1]) :
           jsExpenses' = [jsExpenses EXCEPT ![req.expenseId] =
             [@ EXCEPT !.converted_amount = Some(c),
                       !.conversion_rate = req.rate,
                       !.rate_timestamp = req.rateTimestamp,
                       !.status = "submitted"]]
  /\ jsWorkflows' = [jsWorkflows EXCEPT ![w].pc = "workflow"]
  /\ UNCHANGED <<tsVars, fxVars>>
  /\ UNCHANGED <<jsApprovalSteps, jsRules, jsDecides, jsCreated>>

\* resetApprovalWorkflow (admin route): ApprovalStep.deleteByExpense.
JsResetApprovalWorkflow(w, userId, id) ==
  /\ MayStart(jsWorkflows, w)
  /\ jsRole(userId) = "admin"
  /\ jsApprovalSteps' = [k \in { j \in DOMAIN jsApprovalSteps :
                                   jsApprovalSteps[j].expense_id # id }
                           |-> jsApprovalSteps[k]]
  /\ jsWorkflows' = [jsWorkflows EXCEPT ![w] =
       [IdleJsWorkflow EXCEPT !.pc = "reset", !.kind = "reset", !.userId = userId,
                              !.expenseId = id]]
  /\ UNCHANGED <<tsVars, fxVars>>
  /\ UNCHANGED <<jsExpenses, jsRules, jsDecides, jsCreated>>

\* resetApprovalWorkflow: Expense.update(expenseId, { status: 'submitted', ... }).
JsResetExpenseUpdate(w) ==
  /\ jsWorkflows[w].pc = "reset"
  /\ jsExpenses' = [jsExpenses EXCEPT ![jsWorkflows[w].expenseId].status = "submitted"]
  /\ jsWorkflows' = [jsWorkflows EXCEPT ![w].pc = "workflow"]
  /\ UNCHANGED <<tsVars, fxVars>>
  /\ UNCHANGED <<jsApprovalSteps, jsRules, jsDecides, jsCreated>>

\* createApprovalWorkflow: Expense.findById, getApplicableRules and the
\* approvers of every rule (reads of rows no operation of the model changes).
JsCreateApprovalWorkflow(w) ==
  /\ jsWorkflows[w].pc = "workflow"
  /\ LET rules == jsGetApplicableRules(jsRules, jsExpenses[jsWorkflows[w].expenseId])
         inserts == WorkflowSteps(rules, jsExpenses[jsWorkflows[w].expenseId], 1)
     IN  jsWorkflows' = [jsWorkflows EXCEPT ![w] =
           IF rules = <<>> THEN [@ EXCEPT !.pc = "approve"]
           ELSE IF inserts = <<>> THEN JsWorkflowDone(@, JsResponded("ok"))
           ELSE [@ EXCEPT !.pc = "create", !.toCreate = inserts]]
  /\ UNCHANGED <<tsVars, fxVars>>
  /\ UNCHANGED <<jsExpenses, jsApprovalSteps, jsRules, jsDecides, jsCreated>>

\* No rule applies: Expense.update(expenseId, { status: 'approved' }).
JsAutoApprove(w) ==
  /\ jsWorkflows[w].pc = "approve"
  /\ jsExpenses' = [jsExpenses EXCEPT ![jsWorkflows[w].expenseId].status = "approved"]
  /\ jsWorkflows' = [jsWorkflows EXCEPT ![w] = JsWorkflowDone(@, JsResponded("autoApproved"))]
  /\ UNCHANGED <<tsVars, fxVars>>
  /\ UNCHANGED <<jsApprovalSteps, jsRules, jsDecides, jsCreated>>

\* One ApprovalStep.create: INSERT INTO approval_steps, the id generated.
JsApprovalStepCreate(w) ==
  /\ jsWorkflows[w].pc = "create"
  /\ LET req == jsWorkflows[w]
     IN  /\ jsApprovalSteps' = jsApprovalSteps @@
              ((jsCreated + 1) :> JsStepRow(req.expenseId, Head(req.toCreate)))
         /\ jsWorkflows' = [jsWorkflows EXCEPT ![w] =
              IF Len(req.toCreate) = 1
                THEN JsWorkflowDone([@ EXCEPT !.created = @ + 1], JsResponded("ok"))
                ELSE [@ EXCEPT !.toCreate = Tail(@), !.created = @ + 1]]
  /\ jsCreated' = jsCreated + 1
  /\ UNCHANGED <<tsVars, fxVars>>
  /\ UNCHANGED <<jsExpenses, jsRules, jsDecides>>

-----------------------------------------------------------------------------
(* The backend serving requests: a DRAFT expense, no step, at most one     *)
(* rule configured.                                                        *)

TsInit ==
  /\ expenses = [id \in ExpenseIds |-> DraftExpense]
  /\ approvalSteps = EmptyTable
  /\ approveReqs = [r \in 1..MaxApprove |-> IdleApprove]
  /\ submitReqs = [r \in 1..MaxSubmit |-> IdleSubmit]
  /\ adminOps = 0
  /\ terminalWrites = 0

FxInit ==
  /\ exchangeRates = EmptyTable
  /\ jsExchangeRates = EmptyTable
  /\ jsRateCache = None
  /\ sinks = SinksUp
  /\ OrgInit
  /\ liveRate = None
  /\ now = 0

JsInit ==
  /\ jsExpenses = [id \in ExpenseIds |-> JsDraftExpense]
  /\ jsApprovalSteps = EmptyTable
  /\ jsDecides = [r \in 1..MaxJsDecide |-> IdleJsDecide]
  /\ jsWorkflows = [w \in 1..MaxJsWorkflows |-> IdleJsWorkflow]
  /\ jsCreated = 0

Init ==
  /\ TsInit
  /\ approvalRules \in {EmptyTable} \cup { "r1" :> rule : rule \in RuleMenu }
  /\ JsInit
  /\ jsRules = <<>>
  /\ FxInit

Next ==
  \/ \E r \in 1..MaxApprove, u \in UserIds, a \in {"approve", "reject"}, id \in ExpenseIds :
        ApproveFind(r, u, a, id)
  \/ \E r \in 1..MaxApprove : ApproveUpdate(r)
  \/ \E r \in 1..MaxApprove : ProcessApprovalFind(r)
  \/ \E r \in 1..MaxApprove : ProcessApprovalRules(r)
  \/ \E r \in 1..MaxApprove : EvaluateApprovalStatus(r)
  \/ \E r \in 1..MaxSubmit, u \in UserIds, id \in ExpenseIds : SubmitFind(r, u, id)
  \/ \E r \in 1..MaxSubmit : SubmitUpdate(r)
  \/ \E r \in 1..MaxSubmit : CreateApprovalSteps(r)
  \/ \E r \in 1..MaxSubmit : CreateStep(r)
  \/ \E rule \in CreateMenu : createApprovalRule("r2", rule)
  \/ \E id \in RuleIds, data \in UpdateMenu : updateApprovalRule(id, data)
  \/ \E id \in RuleIds : deleteApprovalRule(id)

Spec == Init /\ [][Next]_vars

-----------------------------------------------------------------------------
(* ApprovalEngine.processApproval called on a stored workflow, as the      *)
(* engine's tests call it: the steps and the rule are rows written to the  *)
(* store beforehand, then the evaluation runs once.                        *)

\* The values the status column of approval_steps (TEXT) holds: the three of
\* the schema and the two approveExpense writes.
StepStatuses == {"PENDING", "APPROVED", "REJECTED", "APPROVE", "REJECT"}

\* Approved steps of a seeded large cohort; the others are PENDING.
CohortApproved == {25, 29, 30}

StatusVectors ==
  UNION { [1..n -> StepStatuses] : n \in 0..MaxSteps }
  \cup { [i \in 1..LargeCohort |-> IF i <= k THEN "APPROVED" ELSE "PENDING"] :
           k \in CohortApproved }

\* Steps of TheExpense, one per approver u1, u2, ..., in sequence.
SeededSteps(statuses) ==
  [ sid \in { StepId(TheExpense, UserId(i)) : i \in DOMAIN statuses } |->
      LET i == CHOOSE j \in DOMAIN statuses : UserId(j) = sid[2]
      IN  [StepRow(TheExpense, Step(UserId(i), i - 1)) EXCEPT !.status = statuses[i]] ]

EvalRuleMenu ==
  { Rule("SEQUENTIAL", None, Null, Null, None, None, 1, TRUE),
    Rule("SPECIFIC", None, UserId(1), Null, None, None, 1, TRUE) }
  \cup { Rule(type, th, Null, Null, None, None, 1, TRUE) :
           type \in {"PARALLEL", "PERCENTAGE"}, th \in {None, Some(58), Some(60)} }
  \cup { Rule("HYBRID", th, UserId(1), Null, None, None, 1, TRUE) :
           th \in {None, Some(58)} }

WaitingExpense ==
  [DraftExpense EXCEPT !.status = WAITING, !.convertedAmount = Some(500),
                       !.conversionRate = Some(RateUnit), !.rateTimestamp = Some(0)]

InitEval ==
  /\ expenses = [id \in ExpenseIds |-> WaitingExpense]
  /\ approvalSteps \in { SeededSteps(statuses) : statuses \in StatusVectors }
  /\ approvalRules \in {EmptyTable} \cup { "r1" :> rule : rule \in EvalRuleMenu }
  /\ approveReqs = [r \in 1..MaxApprove |->
       IF r = 1 THEN [IdleApprove EXCEPT !.pc = "process", !.expenseId = TheExpense]
                ELSE IdleApprove]
  /\ submitReqs = [r \in 1..MaxSubmit |-> IdleSubmit]
  /\ adminOps = 0
  /\ terminalWrites = 0
  /\ JsInit
  /\ jsRules = <<>>
  /\ FxInit

NextEval ==
  \/ \E r \in 1..MaxApprove : ProcessApprovalFind(r)
  \/ \E r \in 1..MaxApprove : ProcessApprovalRules(r)
  \/ \E r \in 1..MaxApprove : EvaluateApprovalStatus(r)

SpecEval == InitEval /\ [][NextEval]_vars

-----------------------------------------------------------------------------
(* The JavaScript backend serving requests: a draft expense, no step, the  *)
(* rules of one company configuration.                                     *)

InitJs ==
  /\ TsInit
  /\ approvalRules = EmptyTable
  /\ JsInit
  /\ jsRules \in JsRuleLists
  /\ FxInit

NextJs ==
  \/ \E r \in 1..MaxJsDecide, u \in UserIds, a \in {"approve", "reject"},
        stepId \in 1..(jsCreated + 1) : JsProcessApproval(r, u, a, stepId)
  \/ \E r \in 1..MaxJsDecide : JsProcessApprovalFind(r)
  \/ \E r \in 1..MaxJsDecide : JsUpdateStatus(r)
  \/ \E r \in 1..MaxJsDecide : JsCheckExpenseApprovalComplete(r)
  \/ \E r \in 1..MaxJsDecide : JsExpenseUpdate(r)
  \/ \E w \in 1..MaxJsWorkflows, u \in UserIds, id \in ExpenseIds : JsSubmitExpense(w, u, id)
  \/ \E w \in 1..MaxJsWorkflows : JsExpenseSubmitSelect(w)
  \/ \E w \in 1..MaxJsWorkflows : JsExpenseSubmitUpdate(w)
  \/ \E w \in 1..MaxJsWorkflows, u \in UserIds, id \in ExpenseIds :
        JsResetApprovalWorkflow(w, u, id)
  \/ \E w \in 1..MaxJsWorkflows : JsResetExpenseUpdate(w)
  \/ \E w \in 1..MaxJsWorkflows : JsCreateApprovalWorkflow(w)
  \/ \E w \in 1..MaxJsWorkflows : JsAutoApprove(w)
  \/ \E w \in 1..MaxJsWorkflows : JsApprovalStepCreate(w)

SpecJs == InitJs /\ [][NextJs]_vars

-----------------------------------------------------------------------------
(* Rule administration over existing workflows: the TypeScript rule        *)
(* operations over stored steps of every status, and the JavaScript rule   *)
(* operations while workflows are created.                                 *)

\* The request bodies of a JavaScript rule update.
JsUpdateMenu == { [is_active |-> FALSE], [type |-> "parallel"] }

\* updateApprovalRule: ApprovalRule.update(ruleId, req.body), one UPDATE of
\* approval_rules.
JsUpdateApprovalRule(i, data) ==
  /\ i \in DOMAIN jsRules
  /\ jsRules' = [jsRules EXCEPT ![i] = ApplyUpdate(@, data)]
  /\ UNCHANGED <<tsVars, fxVars>>
  /\ UNCHANGED <<jsExpenses, jsApprovalSteps, jsDecides, jsWorkflows, jsCreated>>

\* deleteApprovalRule: ApprovalRule.delete(ruleId), one DELETE FROM
\* approval_rules.
JsDeleteApprovalRule(i) ==
  /\ i \in DOMAIN jsRules
  /\ jsRules' = [k \in 1..(Len(jsRules) - 1) |->
                   IF k < i THEN jsRules[k] ELSE jsRules[k + 1]]
  /\ UNCHANGED <<tsVars, fxVars>>
  /\ UNCHANGED <<jsExpenses, jsApprovalSteps, jsDecides, jsWorkflows, jsCreated>>

InitAdmin ==
  /\ approveReqs = [r \in 1..MaxApprove |-> IdleApprove]
  /\ submitReqs = [r \in 1..MaxSubmit |-> IdleSubmit]
  /\ adminOps = 0
  /\ terminalWrites = 0
  /\ JsInit
  /\ FxInit
  /\ \/ /\ expenses = [id \in ExpenseIds |-> WaitingExpense]
        /\ approvalSteps \in { SeededSteps(statuses) : statuses \in [1..2 -> StepStatuses] }
        /\ approvalRules \in { "r1" :> rule : rule \in RuleMenu }
        /\ jsRules = <<>>
     \/ /\ expenses = [id \in ExpenseIds |-> DraftExpense]
        /\ approvalSteps = EmptyTable
        /\ approvalRules = EmptyTable
        /\ jsRules \in JsRuleLists

NextAdmin ==
  \/ \E rule \in CreateMenu : createApprovalRule("r2", rule)
  \/ \E id \in RuleIds, data \in UpdateMenu : updateApprovalRule(id, data)
  \/ \E id \in RuleIds : deleteApprovalRule(id)
  \/ \E i \in 1..2, data \in JsUpdateMenu : JsUpdateApprovalRule(i, data)
  \/ \E i \in 1..2 : JsDeleteApprovalRule(i)
  \/ \E u \in UserIds, id \in ExpenseIds : JsSubmitExpense(1, u, id)
  \/ JsExpenseSubmitSelect(1)
  \/ JsExpenseSubmitUpdate(1)
  \/ JsCreateApprovalWorkflow(1)
  \/ JsAutoApprove(1)
  \/ JsApprovalStepCreate(1)

SpecAdmin == InitAdmin /\ [][NextAdmin]_vars

-----------------------------------------------------------------------------
(* The JavaScript backend submitting an expense in a foreign currency,     *)
(* with the in-memory rate cache, the exchange_rates table, the external   *)
(* rate source and the clock.                                              *)

InitJsFx ==
  /\ TsInit
  /\ approvalRules = EmptyTable
  /\ jsExpenses = [id \in ExpenseIds |->
                     [JsDraftExpense EXCEPT !.original_currency = ForeignCurrency]]
  /\ jsApprovalSteps = EmptyTable
  /\ jsDecides = [r \in 1..MaxJsDecide |-> IdleJsDecide]
  /\ jsWorkflows = [w \in 1..MaxJsWorkflows |-> IdleJsWorkflow]
  /\ jsCreated = 0
  /\ jsRules \in { <<>>, <<JsRule("specific", "adm", Null)>> }
  /\ exchangeRates = EmptyTable
  /\ jsExchangeRates \in {EmptyTable, 0 :> 110}
  /\ jsRateCache \in {None} \cup { Some([rate |-> jsExchangeRates[t], timestamp |-> t]) :
                                      t \in DOMAIN jsExchangeRates }
  /\ liveRate \in LiveRates
  /\ now = 0
  /\ sinks = SinksUp
  /\ OrgInit

NextJsFx ==
  \/ \E w \in 1..MaxJsWorkflows, u \in UserIds, id \in ExpenseIds : JsSubmitExpense(w, u, id)
  \/ \E w \in 1..MaxJsWorkflows : JsExpenseSubmitSelect(w)
  \/ \E w \in 1..MaxJsWorkflows : JsGetExchangeRate(w)
  \/ \E w \in 1..MaxJsWorkflows : JsFetchRate(w)
  \/ \E w \in 1..MaxJsWorkflows : JsStoreExchangeRate(w)
  \/ \E w \in 1..MaxJsWorkflows : JsGetLastKnownRate(w)
  \/ \E w \in 1..MaxJsWorkflows : JsExpenseSubmitUpdate(w)
  \/ \E w \in 1..MaxJsWorkflows : JsCreateApprovalWorkflow(w)
  \/ \E w \in 1..MaxJsWorkflows : JsAutoApprove(w)
  \/ \E w \in 1..MaxJsWorkflows : JsApprovalStepCreate(w)
  \/ Tick
  \/ \E rate \in LiveRates : LiveRateChange(rate)

SpecJsFx == InitJsFx /\ [][NextJsFx]_vars

-----------------------------------------------------------------------------
(* Submission and decision, one call at a time in each backend, while the  *)
(* audit store or the mail transport may be failing.                       *)

InitSinks ==
  /\ TsInit
  /\ approvalRules \in { "r1" :> rule :
        rule \in { x \in RuleMenu : x.type \in {"SEQUENTIAL", "PARALLEL"} } }
  /\ JsInit
  /\ jsRules \in { <<>>, <<JsRule("sequential", Null, Null)>> }
  /\ exchangeRates = EmptyTable
  /\ jsExchangeRates = EmptyTable
  /\ jsRateCache = None
  /\ liveRate = None
  /\ now = 0
  /\ sinks \in [audit : BOOLEAN, notify : BOOLEAN]
  /\ OrgInit

NextSinks ==
  \/ \E u \in UserIds, id \in ExpenseIds : SubmitFind(1, u, id)
  \/ SubmitUpdate(1)
  \/ CreateApprovalSteps(1)
  \/ CreateStep(1)
  \/ \E u \in UserIds, a \in {"approve", "reject"}, id \in ExpenseIds : ApproveFind(1, u, a, id)
  \/ ApproveUpdate(1)
  \/ ProcessApprovalFind(1)
  \/ ProcessApprovalRules(1)
  \/ EvaluateApprovalStatus(1)
  \/ \E u \in UserIds, id \in ExpenseIds : JsSubmitExpense(1, u, id)
  \/ JsExpenseSubmitSelect(1)
  \/ JsExpenseSubmitUpdate(1)
  \/ JsCreateApprovalWorkflow(1)
  \/ JsAutoApprove(1)
  \/ JsApprovalStepCreate(1)
  \/ \E u \in UserIds, a \in {"approve", "reject"}, stepId \in 1..MaxSteps :
        JsProcessApproval(1, u, a, stepId)
  \/ JsProcessApprovalFind(1)
  \/ JsUpdateStatus(1)
  \/ JsCheckExpenseApprovalComplete(1)
  \/ JsExpenseUpdate(1)

SpecSinks == InitSinks /\ [][NextSinks]_vars

-----------------------------------------------------------------------------
(* The manager-chain walk of a SEQUENTIAL workflow over the organisation   *)
(* as the admin edits it.                                                  *)

\* UserController.updateUser with a managerId in the body: the manager must
\* exist and belong to the admin's company; prisma.user.update stores it.
updateUser(id, managerId) ==
  /\ adminOps < MaxAdminOps
  /\ users[id].companyId = TheCompany
  /\ managerId \in UserIds
  /\ users[managerId].companyId = TheCompany
  /\ managerLinks' = [managerLinks EXCEPT ![id] = managerId]
  /\ adminOps' = adminOps + 1
  /\ UNCHANGED jsVars
  /\ UNCHANGED <<expenses, approvalSteps, approvalRules, approveReqs, submitReqs, terminalWrites>>
  /\ UNCHANGED <<exchangeRates, jsExchangeRates, jsRateCache, liveRate, now, sinks, walk>>

\* getManagerHierarchy: managers = [] and the first findUnique.
GetManagerHierarchyFind(userId) ==
  /\ walk.pc \in {"idle", "done"}
  /\ walk' = [pc |-> "loop", userId |-> userId, currentUser |-> userId, managers |-> <<>>]
  /\ UNCHANGED <<tsVars, jsVars>>
  /\ UNCHANGED <<exchangeRates, jsExchangeRates, jsRateCache, liveRate, now, sinks,
                 managerLinks>>

\* One test of while (currentUser?.manager): push the manager and load it
\* with findUnique, or leave the loop and return managers. The loop has no
\* other exit.
GetManagerHierarchyLoop ==
  /\ walk.pc = "loop"
  /\ Len(walk.managers) < MaxWalk
  /\ walk' = IF managerLinks[walk.currentUser] = Null
               THEN [walk EXCEPT !.pc = "done"]
               ELSE [walk EXCEPT !.managers = Append(@, managerLinks[walk.currentUser]),
                                 !.currentUser = managerLinks[walk.currentUser]]
  /\ UNCHANGED <<tsVars, jsVars>>
  /\ UNCHANGED <<exchangeRates, jsExchangeRates, jsRateCache, liveRate, now, sinks,
                 managerLinks>>

InitWalk ==
  /\ TsInit
  /\ approvalRules = EmptyTable
  /\ JsInit
  /\ jsRules = <<>>
  /\ FxInit

NextWalk ==
  \/ \E id \in UserIds, managerId \in UserIds : updateUser(id, managerId)
  \/ \E userId \in UserIds : GetManagerHierarchyFind(userId)
  \/ GetManagerHierarchyLoop

SpecWalk == InitWalk /\ [][NextWalk]_vars

-----------------------------------------------------------------------------
(* Submit calls by every user on an expense of every status and owner.     *)

ExpenseStatuses == {"DRAFT", WAITING, "APPROVED", "REJECTED"}

JsExpenseStatuses == {"draft", "submitted", "approved", "rejected", "paid"}

InitSubmit ==
  /\ \E owner \in Submitters, status \in ExpenseStatuses :
       /\ expenses = [id \in ExpenseIds |->
             IF status = "DRAFT" THEN [DraftExpense EXCEPT !.userId = owner]
             ELSE [WaitingExpense EXCEPT !.userId = owner, !.status = status]]
       /\ approvalSteps = IF status = "DRAFT" THEN EmptyTable
                          ELSE SeededSteps(<<"APPROVED", "PENDING">>)
  /\ approvalRules \in { EmptyTable,
                          "r1" :> Rule("SEQUENTIAL", None, Null, Null, None, None, 1, TRUE) }
  /\ approveReqs = [r \in 1..MaxApprove |-> IdleApprove]
  /\ submitReqs = [r \in 1..MaxSubmit |-> IdleSubmit]
  /\ adminOps = 0
  /\ terminalWrites = 0
  /\ \E owner \in Submitters, status \in JsExpenseStatuses :
       jsExpenses = [id \in ExpenseIds |->
                       [JsDraftExpense EXCEPT !.user_id = owner, !.status = status]]
  /\ jsApprovalSteps = EmptyTable
  /\ jsDecides = [r \in 1..MaxJsDecide |-> IdleJsDecide]
  /\ jsWorkflows = [w \in 1..MaxJsWorkflows |-> IdleJsWorkflow]
  /\ jsCreated = 0
  /\ jsRules = <<>>
  /\ FxInit

NextSubmit ==
  \/ \E r \in 1..MaxSubmit, u \in UserIds, id \in ExpenseIds : SubmitFind(r, u, id)
  \/ \E r \in 1..MaxSubmit : SubmitUpdate(r)
  \/ \E r \in 1..MaxSubmit : CreateApprovalSteps(r)
  \/ \E r \in 1..MaxSubmit : CreateStep(r)
  \/ \E u \in UserIds, id \in ExpenseIds : JsSubmitExpense(1, u, id)
  \/ JsExpenseSubmitSelect(1)
  \/ JsExpenseSubmitUpdate(1)
  \/ JsCreateApprovalWorkflow(1)
  \/ JsAutoApprove(1)

SpecSubmit == InitSubmit /\ [][NextSubmit]_vars

-----------------------------------------------------------------------------
(* One submission in each backend of an expense in the company's currency  *)
(* or in a foreign one, whatever the rate tables, the rate source and the  *)
(* clock say.                                                              *)

InitCurrency ==
  /\ expenses \in { [id \in ExpenseIds |-> [DraftExpense EXCEPT !.originalCurrency = c]] :
                      c \in {DefaultCurrency, ForeignCurrency} }
  /\ approvalSteps = EmptyTable
  /\ approvalRules = "r1" :> Rule("SEQUENTIAL", None, Null, Null, None, None, 1, TRUE)
  /\ approveReqs = [r \in 1..MaxApprove |-> IdleApprove]
  /\ submitReqs = [r \in 1..MaxSubmit |-> IdleSubmit]
  /\ adminOps = 0
  /\ terminalWrites = 0
  /\ jsExpenses \in { [id \in ExpenseIds |-> [JsDraftExpense EXCEPT !.original_currency = c]] :
                        c \in {DefaultCurrency, ForeignCurrency} }
  /\ jsApprovalSteps = EmptyTable
  /\ jsDecides = [r \in 1..MaxJsDecide |-> IdleJsDecide]
  /\ jsWorkflows = [w \in 1..MaxJsWorkflows |-> IdleJsWorkflow]
  /\ jsCreated = 0
  /\ jsRules = <<>>
  /\ exchangeRates \in {EmptyTable, 0 :> 110}
  /\ jsExchangeRates \in {EmptyTable, 0 :> 110}
  /\ jsRateCache \in {None} \cup { Some([rate |-> jsExchangeRates[t], timestamp |-> t]) :
                                      t \in DOMAIN jsExchangeRates }
  /\ liveRate \in LiveRates
  /\ now = 0
  /\ sinks = SinksUp
  /\ OrgInit

NextCurrency ==
  \/ \E u \in UserIds, id \in ExpenseIds : SubmitFind(1, u, id)
  \/ GetCachedRate(1)
  \/ FetchRate(1)
  \/ CacheRate(1)
  \/ SubmitUpdate(1)
  \/ CreateApprovalSteps(1)
  \/ CreateStep(1)
  \/ \E u \in UserIds, id \in ExpenseIds : JsSubmitExpense(1, u, id)
  \/ JsExpenseSubmitSelect(1)
  \/ JsGetExchangeRate(1)
  \/ JsFetchRate(1)
  \/ JsStoreExchangeRate(1)
  \/ JsGetLastKnownRate(1)
  \/ JsExpenseSubmitUpdate(1)
  \/ JsCreateApprovalWorkflow(1)
  \/ JsAutoApprove(1)
  \/ Tick
  \/ \E rate \in LiveRates : LiveRateChange(rate)

SpecCurrency == InitCurrency /\ [][NextCurrency]_vars

-----------------------------------------------------------------------------
(* Submission under every stored pair of rules: the inputs of the rule     *)
(* matcher are drawn from the rules an admin or a seed can store.          *)

MatchAmounts == {None, Some(100), Some(500), Some(1000)}

\* Rule r1: every combination of company, activity, category and amount
\* range; the expense of the model is a Travel expense of 500.
MatchRuleMenu ==
  { [Rule("SPECIFIC", None, "adm", cat, min, max, 1, active) EXCEPT !.companyId = c] :
      c \in {TheCompany, OtherCompany}, active \in BOOLEAN,
      cat \in {Null, "Travel", "Food"}, min \in MatchAmounts, max \in MatchAmounts }

\* Rule r2: a rule that matches, of lower, equal or higher priority than r1.
MatchOtherRules ==
  { Rule("SPECIFIC", None, "mgr1", Null, None, None, prio, TRUE) : prio \in 0..2 }

InitMatch ==
  /\ TsInit
  /\ approvalRules \in { ("r1" :> r1) @@ ("r2" :> r2) :
                           r1 \in MatchRuleMenu, r2 \in MatchOtherRules }
  /\ JsInit
  /\ jsRules = <<>>
  /\ FxInit

NextMatch ==
  \/ \E r \in 1..MaxSubmit, u \in UserIds, id \in ExpenseIds : SubmitFind(r, u, id)
  \/ \E r \in 1..MaxSubmit : SubmitUpdate(r)
  \/ \E r \in 1..MaxSubmit : CreateApprovalSteps(r)
  \/ \E r \in 1..MaxSubmit : CreateStep(r)

SpecMatch == InitMatch /\ [][NextMatch]_vars

-----------------------------------------------------------------------------
(* Submission by every kind of submitter under every rule type: the        *)
(* workflow each rule type builds.                                         *)

BuildRuleMenu ==
  { Rule(type, None, Null, Null, None, None, 0, TRUE) :
      type \in {"SEQUENTIAL", "PARALLEL", "PERCENTAGE"} }
  \cup { Rule(type, None, spec, Null, None, None, 0, TRUE) :
           type \in {"SPECIFIC", "HYBRID"}, spec \in {"adm", "mgr1", "old", Null} }

InitBuild ==
  /\ expenses \in { [id \in ExpenseIds |-> [DraftExpense EXCEPT !.userId = owner]] :
                      owner \in Submitters }
  /\ approvalSteps = EmptyTable
  /\ approvalRules \in { "r1" :> rule : rule \in BuildRuleMenu }
  /\ approveReqs = [r \in 1..MaxApprove |-> IdleApprove]
  /\ submitReqs = [r \in 1..MaxSubmit |-> IdleSubmit]
  /\ adminOps = 0
  /\ terminalWrites = 0
  /\ JsInit
  /\ jsRules = <<>>
  /\ FxInit

NextBuild ==
  \/ \E r \in 1..MaxSubmit, u \in UserIds, id \in ExpenseIds : SubmitFind(r, u, id)
  \/ \E r \in 1..MaxSubmit : SubmitUpdate(r)
  \/ \E r \in 1..MaxSubmit : CreateApprovalSteps(r)
  \/ \E r \in 1..MaxSubmit : CreateStep(r)

SpecBuild == InitBuild /\ [][NextBuild]_vars

-----------------------------------------------------------------------------
(* Submission of an expense in a foreign currency, with the rate cache,    *)
(* the external rate source and the clock.                                 *)

FxExpense == [DraftExpense EXCEPT !.originalCurrency = ForeignCurrency]

FxRuleMenu ==
  { Rule("SEQUENTIAL", None, Null, Null, None, None, 0, TRUE),
    Rule("SPECIFIC", None, "adm", Null, None, None, 0, TRUE),
    Rule("SPECIFIC", None, Null, Null, None, None, 0, TRUE) }

InitFx ==
  /\ expenses = [id \in ExpenseIds |-> FxExpense]
  /\ approvalSteps = EmptyTable
  /\ approvalRules \in {EmptyTable} \cup { "r1" :> rule : rule \in FxRuleMenu }
  /\ approveReqs = [r \in 1..MaxApprove |-> IdleApprove]
  /\ submitReqs = [r \in 1..MaxSubmit |-> IdleSubmit]
  /\ adminOps = 0
  /\ terminalWrites = 0
  /\ JsInit
  /\ jsRules = <<>>
  /\ exchangeRates \in {EmptyTable, 0 :> 110}
  /\ jsExchangeRates = EmptyTable
  /\ jsRateCache = None
  /\ sinks = SinksUp
  /\ OrgInit
  /\ liveRate \in LiveRates
  /\ now = 0

NextFx ==
  \/ \E r \in 1..MaxSubmit, u \in UserIds, id \in ExpenseIds : SubmitFind(r, u, id)
  \/ \E r \in 1..MaxSubmit : GetCachedRate(r)
  \/ \E r \in 1..MaxSubmit : FetchRate(r)
  \/ \E r \in 1..MaxSubmit : CacheRate(r)
  \/ \E r \in 1..MaxSubmit : SubmitUpdate(r)
  \/ \E r \in 1..MaxSubmit : CreateApprovalSteps(r)
  \/ \E r \in 1..MaxSubmit : CreateStep(r)
  \/ Tick
  \/ \E rate \in LiveRates : LiveRateChange(rate)

SpecFx == InitFx /\ [][NextFx]_vars

-----------------------------------------------------------------------------
(* Properties.                                                             *)

\* C1: of two decide calls on the same step, at most one succeeds: no two
\* approveExpense calls that both returned success decided the same step.
C1_OneDecisionPerStep ==
  \A r1, r2 \in 1..MaxApprove :
     (/\ r1 # r2
      /\ approveReqs[r1].pc = "done" /\ approveReqs[r1].result = "ok"
      /\ approveReqs[r2].pc = "done" /\ approveReqs[r2].result = "ok")
     => approveReqs[r1].stepId # approveReqs[r2].stepId

\* C2: once an expense's status is terminal (APPROVED or REJECTED), no step of
\* a decide call, its status evaluation included, changes that status; stated
\* for the expenses table of either backend.
C2_TerminalStatusIsFinal ==
  [][ \A id \in ExpenseIds :
        /\ (expenses[id].status \in {"APPROVED", "REJECTED"} /\ approveReqs' # approveReqs)
             => expenses'[id].status = expenses[id].status
        /\ (jsExpenses[id].status \in {"approved", "rejected"} /\ jsDecides' # jsDecides)
             => jsExpenses'[id].status = jsExpenses[id].status ]_vars

\* C3: for each expense at most one write of a terminal status is ever
\* committed by the status evaluations of its decide calls.
C3_OneTerminalWrite == terminalWrites <= 1

\* C4: a decided approval step (status other than PENDING) keeps its status
\* and stays in the table in every later step of the system.
C4_DecisionIsFinal ==
  [][ \A sid \in DOMAIN approvalSteps :
        approvalSteps[sid].status # "PENDING"
          => /\ sid \in DOMAIN approvalSteps'
             /\ approvalSteps'[sid].status = approvalSteps[sid].status ]_vars

\* C5: in every reachable state the status of every approval step is one of
\* PENDING, APPROVED, REJECTED.
C5_StepStatusDomain ==
  \A sid \in DOMAIN approvalSteps :
     approvalSteps[sid].status \in {"PENDING", "APPROVED", "REJECTED"}

\* C6: whenever the status evaluation of a decide call ran on a step snapshot
\* with at least one rejected step, the expense is REJECTED when the call
\* returns, whatever the other steps are; stated for either backend.
C6_RejectedStepRejects ==
  [][ /\ \A r \in 1..MaxApprove :
           (/\ approveReqs[r].pc = "evaluate" /\ approveReqs'[r].pc = "done"
            /\ Count(approveReqs[r].steps, "REJECTED") > 0)
           => expenses'[approveReqs[r].expenseId].status = "REJECTED"
      /\ \A r \in 1..MaxJsDecide :
           (/\ jsDecides[r].pc \in {"check", "expense"} /\ jsDecides'[r].pc = "done"
            /\ jsDecides'[r].approvalStatus.isRejected)
           => jsExpenses'[jsDecides'[r].expenseId].status = "rejected" ]_vars

\* C7: under a SEQUENTIAL rule and a snapshot without REJECTED step, the
\* evaluation yields APPROVED when every step is APPROVED and
\* WAITING_APPROVAL otherwise.
C7_SequentialNeedsAllApproved ==
  [][ \A r \in 1..MaxApprove :
        (/\ approveReqs[r].pc = "evaluate" /\ approveReqs'[r].pc = "done"
         /\ approveReqs[r].rule.type = "SEQUENTIAL"
         /\ Count(approveReqs[r].steps, "REJECTED") = 0)
        => approveReqs'[r].finalStatus =
             (IF Count(approveReqs[r].steps, "APPROVED") = Len(approveReqs[r].steps)
                THEN "APPROVED" ELSE WAITING) ]_vars

\* C8: under a PARALLEL or PERCENTAGE rule, a snapshot of at least one step
\* and no REJECTED step evaluates to APPROVED exactly when
\* approvedCount * 100 >= thresholdPercent * totalCount (50 when unset), and
\* to WAITING_APPROVAL otherwise.
C8_PercentageThreshold ==
  [][ \A r \in 1..MaxApprove :
        (/\ approveReqs[r].pc = "evaluate" /\ approveReqs'[r].pc = "done"
         /\ approveReqs[r].rule.type \in {"PARALLEL", "PERCENTAGE"}
         /\ Len(approveReqs[r].steps) >= 1
         /\ Count(approveReqs[r].steps, "REJECTED") = 0)
        => LET rule == approveReqs[r].rule
               thresholdPercent == IF rule.thresholdPercent = None
                                     THEN 50 ELSE rule.thresholdPercent[1]
               approvedCount == Count(approveReqs[r].steps, "APPROVED")
               totalCount == Len(approveReqs[r].steps)
           IN  approveReqs'[r].finalStatus =
                 (IF approvedCount * 100 >= thresholdPercent * totalCount
                    THEN "APPROVED" ELSE WAITING) ]_vars

\* C9: under a PARALLEL or PERCENTAGE rule, the evaluation of an expense
\* with zero steps yields APPROVED.
C9_ZeroStepsApproved ==
  [][ \A r \in 1..MaxApprove :
        (/\ approveReqs[r].pc = "evaluate" /\ approveReqs'[r].pc = "done"
         /\ approveReqs[r].rule.type \in {"PARALLEL", "PERCENTAGE"}
         /\ Len(approveReqs[r].steps) = 0)
        => approveReqs'[r].finalStatus = "APPROVED" ]_vars

\* C10: when a submission finds no applicable rule, it creates no step and
\* the expense is APPROVED when the submission returns.
C10_NoRuleAutoApproves ==
  [][ \A r \in 1..MaxSubmit :
        (/\ submitReqs[r].pc = "rules" /\ submitReqs'[r].pc = "done"
         /\ getApplicableRules(approvalRules, users[submitReqs[r].userId].companyId,
                               submitReqs[r].expense.category,
                               NumberOf(submitReqs[r].convertedAmount)) = {})
        => /\ submitReqs'[r].created = 0
           /\ expenses'[submitReqs[r].expenseId].status = "APPROVED" ]_vars

\* C11: submission is all-or-nothing: when a submit call fails (currency
\* conversion, rule matching or step creation), the expense is still DRAFT,
\* its conversion fields are unset and it has no approval step.
C11_FailedSubmitLeavesDraft ==
  [][\A r \in 1..MaxSubmit :
        (/\ submitReqs[r].pc \notin {"idle", "done"}
         /\ submitReqs'[r].pc = "done"
         /\ submitReqs'[r].result = "error")
        => LET expense == expenses'[submitReqs[r].expenseId]
           IN  /\ expense.status = "DRAFT"
               /\ expense.convertedAmount = None
               /\ expense.conversionRate = None
               /\ expense.rateTimestamp = None
               /\ StepsOf(approvalSteps', submitReqs[r].expenseId) = {} ]_vars

\* C12: convertedAmount, conversionRate and rateTimestamp of an expense are
\* written once, by the DRAFT to WAITING_APPROVAL transition: once they are
\* set, no step of any operation (a repeated or concurrent submit, a cache
\* change, a change of the live rate, the passing of time) changes them.
C12_ConversionFieldsWrittenOnce ==
  [][\A id \in ExpenseIds :
        expenses[id].status # "DRAFT"
        => /\ expenses'[id].convertedAmount = expenses[id].convertedAmount
           /\ expenses'[id].conversionRate = expenses[id].conversionRate
           /\ expenses'[id].rateTimestamp = expenses[id].rateTimestamp ]_vars

\* C13: the status of an expense only moves forward: no step of any
\* operation (the admin workflow reset included) takes an expense from
\* APPROVED or REJECTED to another status, or from WAITING_APPROVAL
\* (submitted) back to DRAFT.
C13_StatusMovesForward ==
  [][\A id \in ExpenseIds :
        /\ expenses[id].status \in {"APPROVED", "REJECTED"}
           => expenses'[id].status = expenses[id].status
        /\ expenses[id].status = WAITING => expenses'[id].status # "DRAFT"
        /\ jsExpenses[id].status \in {"approved", "rejected"}
           => jsExpenses'[id].status = jsExpenses[id].status
        /\ jsExpenses[id].status = "submitted" => jsExpenses'[id].status # "draft" ]_vars

\* C14: a decide call that is rejected gets the error of a precondition that
\* failed, a distinct one for each: Unauthorized (NotAuthorized) only when
\* the actor is not the approver of a step of the expense, AlreadyDecided
\* when the actor's step is not PENDING, WorkflowClosed (NotWaiting) when the
\* expense is not WAITING_APPROVAL; and the rejection changes no step and no
\* expense.
C14_DistinctDecideErrors ==
  [][\A r \in 1..MaxApprove, u \in UserIds, a \in {"approve", "reject"}, id \in ExpenseIds :
        (ApproveFind(r, u, a, id) /\ approveReqs'[r].pc = "done")
        => LET sid == StepId(id, u)
               failed ==
                 (IF sid \notin DOMAIN approvalSteps THEN {"NotAuthorized"} ELSE {})
                 \cup (IF sid \in DOMAIN approvalSteps /\ approvalSteps[sid].status # "PENDING"
                        THEN {"AlreadyDecided"} ELSE {})
                 \cup (IF expenses[id].status # WAITING THEN {"NotWaiting"} ELSE {})
           IN  /\ approveReqs'[r].result \in failed
               /\ UNCHANGED <<expenses, approvalSteps>> ]_vars

\* C15: under a SPECIFIC rule, the evaluation of steps none of which is
\* REJECTED makes the expense APPROVED when at least one step is APPROVED,
\* even if other steps are PENDING, and leaves it WAITING_APPROVAL when no
\* step is APPROVED.
C15_SpecificOneApproval ==
  [][ \A r \in 1..MaxApprove :
        (/\ approveReqs[r].pc = "evaluate" /\ approveReqs'[r].pc = "done"
         /\ approveReqs[r].rule.type = "SPECIFIC"
         /\ Count(approveReqs[r].steps, "REJECTED") = 0)
        => IF Count(approveReqs[r].steps, "APPROVED") >= 1
             THEN /\ approveReqs'[r].finalStatus = "APPROVED"
                  /\ expenses'[approveReqs[r].expenseId].status = "APPROVED"
             ELSE /\ approveReqs'[r].finalStatus = WAITING
                  /\ expenses'[approveReqs[r].expenseId].status = WAITING ]_vars

\* A SPECIFIC evaluation has made the expense APPROVED on one APPROVED step
\* while another step is still PENDING.
C15_Witness ==
  \E r \in 1..MaxApprove :
    /\ approveReqs[r].pc = "done" /\ approveReqs[r].finalStatus = "APPROVED"
    /\ "r1" \in DOMAIN approvalRules /\ approvalRules["r1"].type = "SPECIFIC"
    /\ expenses[TheExpense].status = "APPROVED"
    /\ Cardinality({ sid \in DOMAIN approvalSteps :
                       approvalSteps[sid].status = "APPROVED" }) = 1
    /\ \E sid \in DOMAIN approvalSteps : approvalSteps[sid].status = "PENDING"
    /\ \A sid \in DOMAIN approvalSteps : approvalSteps[sid].status # "REJECTED"

\* C16: under a HYBRID rule, the evaluation of steps none of which is
\* REJECTED yields APPROVED when the specific approver's step is APPROVED;
\* otherwise the threshold (60 when unset) is applied to the other steps
\* only: the specific approver's step is counted neither in the approved
\* count nor in the total.
C16_HybridCountsOtherSteps ==
  [][ \A r \in 1..MaxApprove :
        (/\ approveReqs[r].pc = "evaluate" /\ approveReqs'[r].pc = "done"
         /\ approveReqs[r].rule.type = "HYBRID"
         /\ Count(approveReqs[r].steps, "REJECTED") = 0)
        => LET rule == approveReqs[r].rule
               steps == approveReqs[r].steps
               specific == { i \in 1..Len(steps) :
                               steps[i].approverId = rule.specificApproverId }
               others == (1..Len(steps)) \ specific
               approvedCount == Cardinality({ i \in others : steps[i].status = "APPROVED" })
               thresholdPercent == IF rule.thresholdPercent = None
                                     THEN 60 ELSE rule.thresholdPercent[1]
           IN  IF \E i \in specific : steps[i].status = "APPROVED"
                 THEN approveReqs'[r].finalStatus = "APPROVED"
                 ELSE others # {}
                      => approveReqs'[r].finalStatus =
                           (IF approvedCount * 100 >= thresholdPercent * Cardinality(others)
                              THEN "APPROVED" ELSE WAITING) ]_vars

\* C17: the rule a submission builds its steps from is never an inactive
\* rule, a rule of another company, a rule whose appliesToCategory is set
\* and differs from the expense's category, or a rule whose minAmount is
\* above or whose maxAmount is below the expense's amount.
C17_MatcherSelectsOnlyMatching ==
  [][ \A r \in 1..MaxSubmit :
        (submitReqs[r].pc = "rules" /\ submitReqs'[r].pc = "create")
        => LET rule == submitReqs'[r].rule
               expense == expenses[submitReqs[r].expenseId]
               amount == NumberOf(expense.convertedAmount)
           IN  /\ rule.isActive
               /\ rule.companyId = expense.companyId
               /\ rule.appliesToCategory \in {Null, expense.category}
               /\ rule.minAmount = None \/ rule.minAmount[1] <= amount
               /\ rule.maxAmount = None \/ rule.maxAmount[1] >= amount ]_vars

\* A submission has passed over a rule of higher priority that does not
\* match (inactive, other company, other category or amount out of range)
\* and builds its steps from the matching rule of lower priority.
C17_Witness ==
  \E r \in 1..MaxSubmit :
    /\ submitReqs[r].pc = "create"
    /\ DOMAIN approvalRules = {"r1", "r2"}
    /\ submitReqs[r].rule = approvalRules["r2"]
    /\ approvalRules["r1"].priority > approvalRules["r2"].priority
    /\ \/ ~approvalRules["r1"].isActive
       \/ approvalRules["r1"].companyId # TheCompany
       \/ approvalRules["r1"].appliesToCategory = "Food"
       \/ approvalRules["r1"].minAmount = Some(1000)
       \/ approvalRules["r1"].maxAmount = Some(100)

\* C18: when several rules match an expense, its steps come from exactly
\* one rule (the first candidate in priority order): every step of the
\* expense is a step that one matching rule yields, and no approver gets a
\* step from another matching rule.
C18_StepsFromOneRule ==
  \A id \in ExpenseIds :
    LET rules == jsGetApplicableRules(jsRules, jsExpenses[id])
        rows == { k \in DOMAIN jsApprovalSteps : jsApprovalSteps[k].expense_id = id }
    IN  rules # <<>>
        => \E i \in 1..Len(rules) :
             \A k \in rows :
               \E j \in 1..Len(getApproversForRule(rules[i], jsExpenses[id])) :
                 getApproversForRule(rules[i], jsExpenses[id])[j]
                   = jsApprovalSteps[k].approver_id

\* C19: in every reachable state there is at most one approval step per
\* (expenseId, approverId) pair, whatever rule type built the workflow and
\* however many times submit is attempted.
C19_OneStepPerApprover ==
  \A j, k \in DOMAIN jsApprovalSteps :
    (/\ jsApprovalSteps[j].expense_id = jsApprovalSteps[k].expense_id
     /\ jsApprovalSteps[j].approver_id = jsApprovalSteps[k].approver_id)
    => j = k

\* C20: the approved count of the evaluation never double-counts: in every
\* reachable state it equals the number of distinct approvers whose step is
\* APPROVED, and it never exceeds the number of steps.
C20_ApprovedCountDistinctApprovers ==
  \A id \in ExpenseIds :
    LET stats == stepStats(jsApprovalSteps, id)
        approvers == { jsApprovalSteps[k].approver_id :
                         k \in { j \in DOMAIN jsApprovalSteps :
                                   /\ jsApprovalSteps[j].expense_id = id
                                   /\ jsApprovalSteps[j].status = "approved" } }
    IN  /\ stats.approved = Cardinality(approvers)
        /\ stats.approved <= stats.total

\* C21: a PARALLEL or PERCENTAGE workflow, when the submission that built it
\* has returned, has exactly one PENDING step at sequenceIndex 0 for every
\* active MANAGER or ADMIN of the expense's company except the submitter,
\* and no other step: the submitter has no step on their own expense.
C21_ParallelApprovers ==
  \A r \in 1..MaxSubmit :
    (/\ submitReqs[r].pc = "done" /\ submitReqs[r].result = "ok"
     /\ approvalRules["r1"].type \in {"PARALLEL", "PERCENTAGE"})
    => LET id == submitReqs[r].expenseId
           expected == { u \in UserIds :
                           /\ users[u].isActive
                           /\ users[u].role \in {"MANAGER", "ADMIN"}
                           /\ users[u].companyId = expenses[id].companyId
                           /\ u # expenses[id].userId }
           steps == StepsOf(approvalSteps, id)
       IN  /\ { step.approverId : step \in steps } = expected
           /\ \A step \in steps : step.sequenceIndex = 0 /\ step.status = "PENDING"

C23_EmptyChainApproves ==
  \A r \in 1..MaxSubmit :
    (/\ submitReqs[r].pc = "done" /\ submitReqs[r].result = "ok"
     /\ approvalRules["r1"].type = "SEQUENTIAL"
     /\ users[expenses[submitReqs[r].expenseId].userId].managerId = Null)
    => /\ StepsOf(approvalSteps, submitReqs[r].expenseId) = {}
       /\ expenses[submitReqs[r].expenseId].status = "APPROVED"

\* C24: under a SPECIFIC rule whose specificApproverId is unset, names an
\* inactive user or names a user of another company, a submission by the
\* owner fails, the expense has no step and is still DRAFT; under any other
\* SPECIFIC rule a submission that returned left exactly one step, for that
\* approver.
C24_SpecificApproverValidated ==
  \A r \in 1..MaxSubmit :
    (submitReqs[r].pc = "done" /\ approvalRules["r1"].type = "SPECIFIC"
       /\ submitReqs[r].result \in {"ok", "error"})
    => LET id == submitReqs[r].expenseId
           approver == approvalRules["r1"].specificApproverId
           invalid == \/ approver = Null
                      \/ ~users[approver].isActive
                      \/ users[approver].companyId # expenses[id].companyId
           steps == StepsOf(approvalSteps, id)
       IN  IF invalid
             THEN /\ submitReqs[r].result = "error"
                  /\ steps = {}
                  /\ expenses[id].status = "DRAFT"
             ELSE submitReqs[r].result = "ok"
                    => /\ Cardinality(steps) = 1
                       /\ \A step \in steps : step.approverId = approver

\* C25: a HYBRID workflow, when the submission that built it has returned,
\* has one step for the specific approver at sequenceIndex 0 and one step at
\* sequenceIndex 1 for every active MANAGER or ADMIN of the company other
\* than the submitter and the specific approver, and no other step.
C25_HybridSteps ==
  \A r \in 1..MaxSubmit :
    (/\ submitReqs[r].pc = "done" /\ submitReqs[r].result = "ok"
     /\ approvalRules["r1"].type = "HYBRID"
     /\ approvalRules["r1"].specificApproverId # Null)
    => LET id == submitReqs[r].expenseId
           approver == approvalRules["r1"].specificApproverId
           others == { u \in UserIds :
                         /\ users[u].isActive
                         /\ users[u].role \in {"MANAGER", "ADMIN"}
                         /\ users[u].companyId = expenses[id].companyId
                         /\ u # expenses[id].userId
                         /\ u # approver }
       IN  { <<step.approverId, step.sequenceIndex>> :
               step \in StepsOf(approvalSteps, id) }
             = {<<approver, 0>>} \cup { <<u, 1>> : u \in others }

\* C26: creating, editing, deactivating or deleting an approval rule leaves
\* every approval step that already exists unchanged, in both backends.
C26_RuleOpsKeepSteps ==
  [][ /\ (adminOps' # adminOps \/ approvalRules' # approvalRules)
          => approvalSteps' = approvalSteps
      /\ jsRules' # jsRules => jsApprovalSteps' = jsApprovalSteps ]_vars

\* C26 witness: rule r1 was deleted while the expense had steps, one of them
\* already APPROVED.
C26_Witness ==
  /\ adminOps > 0
  /\ "r1" \notin DOMAIN approvalRules
  /\ \E sid \in DOMAIN approvalSteps : approvalSteps[sid].status = "APPROVED"

\* C27: a submission whose conversion found no cached rate within the
\* freshness window while the external rate source failed writes nothing:
\* the expense stays as it was, no step is created and no rate entry is
\* added by any step of that call.
C27_NoRateAbortsSubmission ==
  [][ \A w \in 1..MaxJsWorkflows :
        (/\ jsWorkflows[w].sourceDown
         /\ jsWorkflows[w].rateAge # None
         /\ jsWorkflows[w].rateAge[1] > FreshnessWindow
         /\ jsWorkflows'[w] # jsWorkflows[w])
        => /\ jsExpenses' = jsExpenses
           /\ jsApprovalSteps' = jsApprovalSteps
           /\ jsExchangeRates' = jsExchangeRates ]_vars

\* C28: the rate cache is append-only: an entry of the exchange_rates table
\* keeps its timestamp and rate through every conversion, and an entry of
\* the in-memory cache, once written, is not replaced.
C28_RateCacheAppendOnly ==
  [][ /\ \A t \in DOMAIN jsExchangeRates :
           t \in DOMAIN jsExchangeRates' /\ jsExchangeRates'[t] = jsExchangeRates[t]
      /\ jsRateCache # None => jsRateCache' = jsRateCache ]_vars

\* C29: a conversion takes its rate from a stored entry (the in-memory cache
\* or the exchange_rates table) only when that entry is at most one
\* freshness window old.
C29_CachedRateIsFresh ==
  \A w \in 1..MaxJsWorkflows :
    jsWorkflows[w].rateFrom \in {"memo", "fallback"}
      => jsWorkflows[w].rateAge[1] <= FreshnessWindow

\* C30: a submission or a decision that passed its checks answers with
\* success and its writes stay (the expense has left the draft status with
\* every created step stored, the decided step is no longer pending),
\* whether or not the audit store and the notification transport fail, in
\* both backends.
C30_SinkFailureIsSwallowed ==
  /\ \A r \in 1..MaxSubmit :
       (submitReqs[r].pc = "done"
          /\ submitReqs[r].result \notin {"NotFound", "NotOwner", "NotDraft"})
       => /\ submitReqs[r].result = "ok"
          /\ expenses[submitReqs[r].expenseId].status # "DRAFT"
          /\ Cardinality(StepsOf(approvalSteps, submitReqs[r].expenseId))
               = submitReqs[r].created
  /\ \A r \in 1..MaxApprove :
       (approveReqs[r].pc = "done"
          /\ approveReqs[r].result \notin {"NotFound", "NotWaiting", "NotAuthorized"})
       => /\ approveReqs[r].result = "ok"
          /\ approvalSteps[approveReqs[r].stepId].status # "PENDING"
  /\ \A w \in 1..MaxJsWorkflows :
       (jsWorkflows[w].pc = "done"
          /\ jsWorkflows[w].result \notin {"NotFound", "NotOwner", "NotDraft"})
       => /\ jsWorkflows[w].result \in {"ok", "autoApproved"}
          /\ jsExpenses[jsWorkflows[w].expenseId].status # "draft"
  /\ \A r \in 1..MaxJsDecide :
       (jsDecides[r].pc = "done"
          /\ jsDecides[r].result \notin {"NotFound", "NotAuthorized", "AlreadyProcessed"})
       => /\ jsDecides[r].result = "ok"
          /\ jsApprovalSteps[jsDecides[r].stepId].status # "pending"

\* C30 witness: with the audit store and the notification transport both
\* failing, a submission that created steps and a decision on one of them
\* have both answered with success.
C30_Witness ==
  /\ ~sinks.audit /\ ~sinks.notify
  /\ submitReqs[1].pc = "done" /\ submitReqs[1].result = "ok" /\ submitReqs[1].created > 0
  /\ approveReqs[1].pc = "done" /\ approveReqs[1].result = "ok"
  /\ jsDecides[1].pc = "done" /\ jsDecides[1].result = "ok"

\* C31: the manager-chain walk terminates on every organisation graph and
\* lists no manager twice: at every moment the managers collected are
\* pairwise distinct, so there are never more of them than users.
C31_WalkTerminatesWithoutRepeats ==
  /\ \A i, j \in DOMAIN walk.managers : i # j => walk.managers[i] # walk.managers[j]
  /\ Len(walk.managers) <= Cardinality(UserIds)

\* C32: a submit call made on an expense that is not DRAFT, or by a user who
\* is not its submitter, fails at once and changes neither the expense nor
\* its steps; a submit call that succeeded was made by the submitter. Both
\* backends.
C32_SubmitOnlyDraftByOwner ==
  [][ /\ \A r \in 1..MaxSubmit, u \in UserIds, id \in ExpenseIds :
           (SubmitFind(r, u, id)
              /\ (expenses[id].status # "DRAFT" \/ expenses[id].userId # u))
           => /\ submitReqs'[r].pc = "done"
              /\ submitReqs'[r].result \in {"NotFound", "NotOwner", "NotDraft"}
              /\ expenses' = expenses
              /\ approvalSteps' = approvalSteps
      /\ \A u \in UserIds, id \in ExpenseIds :
           (JsSubmitExpense(1, u, id)
              /\ (jsExpenses[id].status # "draft" \/ jsExpenses[id].user_id # u))
           => /\ jsWorkflows'[1].pc = "done"
              /\ jsWorkflows'[1].result \in {"NotFound", "NotOwner", "NotDraft"}
              /\ jsExpenses' = jsExpenses
              /\ jsApprovalSteps' = jsApprovalSteps
      /\ \A r \in 1..MaxSubmit :
           (submitReqs'[r].pc = "done" /\ submitReqs'[r].result = "ok")
           => submitReqs'[r].userId = expenses'[submitReqs'[r].expenseId].userId ]_vars

\* C32 witness: the owner's submit on an APPROVED expense and another
\* user's submit were both refused, and the expense and its steps are as
\* they were.
C32_Witness ==
  /\ expenses[TheExpense].status = "APPROVED"
  /\ approvalSteps = SeededSteps(<<"APPROVED", "PENDING">>)
  /\ \E r1, r2 \in 1..MaxSubmit :
       /\ submitReqs[r1].pc = "done" /\ submitReqs[r1].result = "NotDraft"
       /\ submitReqs[r2].pc = "done" /\ submitReqs[r2].result = "NotOwner"

\* C33: the submission of an expense whose currency is the company's
\* currency never enters the rate lookup, the fetch or the cache write,
\* leaves the rate tables and the in-memory cache as they were, and stores
\* the original amount as converted amount with rate 1. Both backends.
C33_SameCurrencyIsIdentity ==
  [][ /\ \A id \in ExpenseIds :
           expenses[id].originalCurrency = DefaultCurrency
           => /\ \A r \in 1..MaxSubmit :
                   submitReqs'[r].expenseId = id
                   => submitReqs'[r].pc \notin {"convert", "fetch", "cache"}
              /\ (\E r \in 1..MaxSubmit : submitReqs'[r] # submitReqs[r])
                   => exchangeRates' = exchangeRates
              /\ expenses'[id].status # "DRAFT"
                   => /\ expenses'[id].convertedAmount = Some(expenses[id].originalAmount)
                      /\ expenses'[id].conversionRate = Some(RateUnit)
      /\ \A id \in ExpenseIds :
           jsExpenses[id].original_currency = DefaultCurrency
           => /\ \A w \in 1..MaxJsWorkflows :
                   jsWorkflows'[w].expenseId = id
                   => jsWorkflows'[w].pc \notin {"rate", "fetch", "store", "fallback"}
              /\ (\E w \in 1..MaxJsWorkflows : jsWorkflows'[w] # jsWorkflows[w])
                   => jsExchangeRates' = jsExchangeRates /\ jsRateCache' = jsRateCache
              /\ jsExpenses'[id].status # "draft"
                   => /\ jsExpenses'[id].converted_amount = Some(jsExpenses[id].original_amount)
                      /\ jsExpenses'[id].conversion_rate = Some(RateUnit) ]_vars

\* C33 witness: both backends have submitted an expense in the company's
\* currency while a cached rate was stored and the rate source answered.
C33_Witness ==
  /\ expenses[TheExpense].originalCurrency = DefaultCurrency
  /\ expenses[TheExpense].status = WAITING
  /\ expenses[TheExpense].convertedAmount = Some(expenses[TheExpense].originalAmount)
  /\ jsExpenses[TheExpense].original_currency = DefaultCurrency
  /\ jsExpenses[TheExpense].status # "draft"
  /\ DOMAIN exchangeRates # {} /\ jsRateCache # None /\ liveRate # None

\* C34: in every reachable state an APPROVED expense has no rejected step,
\* in either backend. A rejected step of the TypeScript backend is one whose
\* status column holds REJECTED or the REJECT that approveExpense stores.
C34_ApprovedHasNoRejectedStep ==
  /\ \A sid \in DOMAIN approvalSteps :
        expenses[approvalSteps[sid].expenseId].status = "APPROVED"
        => approvalSteps[sid].status \notin {"REJECTED", "REJECT"}
  /\ \A sid \in DOMAIN jsApprovalSteps :
        jsExpenses[jsApprovalSteps[sid].expense_id].status = "approved"
        => jsApprovalSteps[sid].status # "rejected"

\* ApprovalEngine.processApproval on the stored steps of expense id under the
\* rule table rules: the statuses the call can return (one for each rule the
\* ordering of the applicable rules can put first).
processApprovalStatuses(rules, id) ==
  LET expense == expenses[id]
      steps == SortBySequenceIndex(StepsOf(approvalSteps, id))
      ids == getApplicableRules(rules, expense.companyId, expense.category,
                                NumberOf(expense.convertedAmount))
  IN  IF ids = {}
        THEN {expense.status}
        ELSE { evaluateApprovalStatus(expense.status, steps, rules[rid]).status :
                 rid \in TopRules(rules, ids) }

\* C35: a rule operation (create, update, delete) performed while an expense
\* in WAITING_APPROVAL has steps does not change the status that the
\* evaluation of a decision derives from those steps.
C35_RuleChangeKeepsDerivedStatus ==
  [][ \A id \in ExpenseIds :
        (/\ approvalRules' # approvalRules
         /\ expenses[id].status = WAITING
         /\ StepsOf(approvalSteps, id) # {})
        => processApprovalStatuses(approvalRules', id)
             = processApprovalStatuses(approvalRules, id) ]_vars

\* C36: when no decide call and no submission is in progress, an expense
\* that has at least one step and no PENDING step is not in WAITING_APPROVAL
\* (submitted, in the JavaScript backend); stated for either backend.
C36_NoStuckWorkflow ==
  /\ ((\A r \in 1..MaxApprove : approveReqs[r].pc \in {"idle", "done"})
       /\ (\A r \in 1..MaxSubmit : submitReqs[r].pc \in {"idle", "done"}))
      => \A id \in ExpenseIds :
           (/\ StepsOf(approvalSteps, id) # {}
            /\ \A step \in StepsOf(approvalSteps, id) : step.status # "PENDING")
           => expenses[id].status # WAITING
  /\ ((\A r \in 1..MaxJsDecide : jsDecides[r].pc \in {"idle", "done"})
       /\ (\A w \in 1..MaxJsWorkflows : jsWorkflows[w].pc \in {"idle", "done"}))
      => \A id \in ExpenseIds :
           LET steps == { k \in DOMAIN jsApprovalSteps : jsApprovalSteps[k].expense_id = id }
           IN  (/\ steps # {}
                /\ \A k \in steps : jsApprovalSteps[k].status # "pending")
               => jsExpenses[id].status # "submitted"

\* C37: the update of a submission (status, converted amount, rate, rate
\* timestamp) is written only while the expense is DRAFT, so at most one of
\* several concurrent submissions performs the transition, and at most one
\* submission of an expense has created approval steps; either backend.
C37_OneSubmissionWins ==
  [][ /\ \A r \in 1..MaxSubmit :
           (submitReqs[r].pc = "update" /\ submitReqs'[r].pc # "update")
           => expenses[submitReqs[r].expenseId].status = "DRAFT"
      /\ \A id \in ExpenseIds :
           Cardinality({ r \in 1..MaxSubmit :
                           submitReqs'[r].expenseId = id /\ submitReqs'[r].created > 0 }) <= 1
      /\ \A w \in 1..MaxJsWorkflows :
           (jsWorkflows[w].pc = "submit" /\ jsWorkflows'[w].pc # "submit")
           => jsExpenses[jsWorkflows[w].expenseId].status = "draft"
      /\ \A id \in ExpenseIds :
           Cardinality({ w \in 1..MaxJsWorkflows :
                           /\ jsWorkflows'[w].kind = "submit"
                           /\ jsWorkflows'[w].expenseId = id
                           /\ jsWorkflows'[w].created > 0 }) <= 1 ]_vars

====
